---- MODULE Spec2Model ----
(***************************************************************************)
(* Astro-Log-Sentiment: the row store (src/data/db.py), the analysis       *)
(* runner (src/analysis/runner.py) and the two scrapers                    *)
(* (src/scraping/*.py) as state machines.                                  *)
(*                                                                         *)
(* Specifications:                                                         *)
(*   SpecStore      the store API called freely by two writers             *)
(*   SpecAnalysis   run_analysis invocations over a filled store           *)
(*   SpecPipeline   scrape.py then analyze.py, run again and again         *)
(*   SpecCheckpoint the checkpoint file saved, and loaded after a restart  *)
(*   SpecCrawl      a scraper process step by step, killed and restarted    *)
(*   SpecFetch      one call of fetch_page / fetch_url, attempt by attempt  *)
(*   SpecChunk      chunk_text applied to a text of N token ids             *)
(*   SpecLabel      analyze_text applied to an answer of the scoring oracle *)
(*   SpecAggregate  per-chunk results aggregated, directly and per document *)
(*   SpecSplit      split_segments applied to a text, character by character*)
(*   SpecPost       scrape_full_post applied to a cached page               *)
(*   SpecMap        map_date_to_expedition applied to a date and a list     *)
(***************************************************************************)
EXTENDS Integers, Sequences, FiniteSets, TLC

(***************************************************************************)
(* Bounds of the model.                                                    *)
(***************************************************************************)
\* source rows carry ids 1..MaxSourceId
MaxSourceId == 2
\* number of store API calls of one behaviour of SpecStore
MaxCalls == 3
\* number of run_analysis invocations of one behaviour
MaxRuns == 2
\* listing pages of the blog, and entries of the oral-history index
MaxPages == 2
MaxTranscripts == 2
\* in how many places the source set of a pipeline run departs from a
\* fault-free one
MaxFaults == 2

(***************************************************************************)
(* Program constants.                                                      *)
(***************************************************************************)
\* runner.py:24
MIN_WORDS_FOR_ANALYSIS == 10

\* sentiment.py:12 and emotion.py MODEL_NAME (without the hub prefix)
SENTIMENT_MODEL == "twitter-roberta-base-sentiment-latest"
EMOTION_MODEL == "emotion-english-distilroberta-base"
ModelNames == {SENTIMENT_MODEL, EMOTION_MODEL}
\* Python's None as the model_name argument of get_unanalyzed
None == "None"

\* CHECK(source_type IN ('blog', 'oral_history'))
SourceTypes == {"blog", "oral_history"}
\* models.py: SentimentResult.label pattern
SentimentLabels == {"positive", "negative", "neutral"}
\* models.py: OralHistorySegment.speaker pattern
Speakers == {"interviewer", "astronaut"}

VARIABLES
    \* the committed content of the SQLite file, one set of rows per table
    blog_posts, oral_histories,
    sentiment_results, emotion_results, linguistic_features,
    \* the open write transaction: its owner ("" when none), the table it
    \* writes and the rows it adds at commit
    txn,
    \* what the latest store call returned or raised
    call_result,
    \* number of store API calls made (bounds SpecStore)
    calls,
    \* run_analysis: the position of the invocation ("idle" between
    \* invocations), the source type of the batch being analysed, the
    \* analyzers built from the skip flags, the list handed to _analyze_rows
    \* and the index of its current row
    ar_pc, ar_source_type, analyzers, rows, row_index,
    \* how the latest invocation ended: "none", "complete" or "crashed"
    ar_status,
    \* number of run_analysis invocations started
    invocation,
    \* the (analyzer, source_type, source_id) whose analysis raised in the
    \* current invocation, and the one the latest step gave to a scoring oracle
    failed, submitted,
    \* the reading of the clock behind datetime.utcnow()
    now,
    \* what the network and the scoring oracles answer (the source set)
    world,
    \* the numbers of the rows of the expeditions table
    expeditions,
    \* on disk: blog_scrape_checkpoint.json and the html cache directory
    checkpoint_file, html_cache,
    \* ISSBlogScraper.run: its position ("idle" before the first run,
    \* "returned" or "raised" after one) and its locals
    blog_pc, checkpoint, scraped_urls, max_pages, page_num, post_metas,
    meta_index,
    \* number of ISSBlogScraper.run calls started, and the arguments of the
    \* latest completed _save_checkpoint
    blog_runs, last_saved,
    \* on disk: the pdf cache directory
    pdf_cache,
    \* OralHistoryScraper.run: its position and its locals
    oral_pc, transcripts, entry_index,
    \* number of OralHistoryScraper.run calls started
    oral_runs,
    \* the scraper process seen step by step: where the fetch in progress is
    \* ("none", "response" in hand, "written" to the cache, "slept"), the
    \* index of the segment process_transcript inserts next, the latest
    \* network event of the process (a live request or a delay) with the
    \* key it was for, how often a scraper process was killed, and the
    \* listing pages and the posts the log names ("Failed to scrape listing
    \* page ...", "Failed to fetch ...", "Failed to scrape post ...")
    io, seg_index, net, crashes, failed_pages, failed_posts,
    \* one call of fetch_page or fetch_url under tenacity: its position
    \* ("idle", "attempt", "wait", "returned", "raised"), the function, the
    \* outcome of each requests.get of the call, the seconds slept between
    \* attempts, what the call gave its caller, and the number of calls made
    fetch_pc, fetch_fn, attempts, waits, fetch_result, fetch_calls,
    \* one call of chunk_text: the number of token ids of the text, the
    \* max_tokens and overlap arguments, the token ranges of the chunks
    \* returned, and the position of the call ("idle", "called", "returned")
    n_tokens, max_tokens, overlap, chunks, chunk_pc,
    \* scoring one document: the analyzer ("sentiment" or "emotion"), the
    \* list of {label, score} items the oracle gave to analyze_text,
    \* the per-chunk results, the result returned or stored, and the
    \* position ("idle", "called", "direct", "row", "returned",
    \* "aggregated", "stored")
    score_kind, oracle_items, chunk_results, score_result, score_pc,
    \* one call of split_segments: the lines of the text (text.split("\n")),
    \* the interviewer_last_name argument, the list returned, and the
    \* position of the call ("idle", "called", "returned")
    text_lines, interviewer_last_name, split_result, split_pc,
    \* calls of scrape_full_post on one cached page: what BeautifulSoup finds
    \* in the cached markup, the url argument, and what each call returned
    page_markup, post_url, post_results,
    \* one call of map_date_to_expedition: its arguments, what it returned
    \* and the position of the call ("idle", "called", "returned")
    map_date, map_expeditions, map_result, map_pc

tables == <<blog_posts, oral_histories, sentiment_results, emotion_results,
            linguistic_features>>
storeApiVars == <<txn, call_result, calls>>
analysisVars == <<ar_pc, ar_source_type, analyzers, rows, row_index, ar_status,
                  invocation, failed, submitted>>
clockVars == <<now>>
worldVars == <<world, expeditions>>
blogVars == <<checkpoint_file, html_cache, blog_pc, checkpoint, scraped_urls,
              max_pages, page_num, post_metas, meta_index, blog_runs,
              last_saved>>
oralVars == <<pdf_cache, oral_pc, transcripts, entry_index, oral_runs>>
crawlVars == <<io, seg_index, net, crashes, failed_pages, failed_posts>>
fetchVars == <<fetch_pc, fetch_fn, attempts, waits, fetch_result, fetch_calls>>
chunkVars == <<n_tokens, max_tokens, overlap, chunks, chunk_pc>>
\* the variables of the single calls
scoreVars == <<score_kind, oracle_items, chunk_results, score_result, score_pc>>
splitVars == <<text_lines, interviewer_last_name, split_result, split_pc>>
postVars == <<page_markup, post_url, post_results>>
mapVars == <<map_date, map_expeditions, map_result, map_pc>>
callVars == <<fetchVars, chunkVars, scoreVars, splitVars, postVars, mapVars>>
vars == <<tables, storeApiVars, analysisVars, clockVars, worldVars, blogVars,
          oralVars, crawlVars, callVars>>
\* what the store API alone leaves untouched
notStore == <<analysisVars, clockVars, worldVars, blogVars, oralVars,
             crawlVars, callVars>>
\* what run_analysis leaves untouched
notAnalysis == <<storeApiVars, clockVars, worldVars, blogVars, oralVars,
                crawlVars, callVars>>
\* what ISSBlogScraper leaves untouched, its own store writes aside
notBlog == <<storeApiVars, analysisVars, clockVars, worldVars, oralVars,
            crawlVars, callVars>>
\* what OralHistoryScraper leaves untouched, its own store writes aside
notOral == <<storeApiVars, analysisVars, clockVars, worldVars, blogVars,
            crawlVars, callVars>>

(***************************************************************************)
(* The row store: schema and statements of src/data/db.py                  *)
(***************************************************************************)
MaxOf(S) == IF S = {} THEN 0 ELSE CHOOSE m \in S : \A x \in S : x <= m

\* INTEGER PRIMARY KEY AUTOINCREMENT: one more than the largest id in use
\* (no statement of the program deletes a row)
NextRowId(table) == MaxOf({r.id : r \in table}) + 1

\* UNIQUE(source_type, source_id, model_name)
ModelKey(r) == <<r.source_type, r.source_id, r.model_name>>
\* UNIQUE(source_type, source_id)
SourceKey(r) == <<r.source_type, r.source_id>>

ConflictModelKey(table, r) == \E x \in table : ModelKey(x) = ModelKey(r)
ConflictSourceKey(table, r) == \E x \in table : SourceKey(x) = SourceKey(r)
\* blog_posts: url TEXT NOT NULL UNIQUE
ConflictUrl(table, r) == \E x \in table : x.url = r.url

\* One INSERT statement. A row that violates the table's UNIQUE constraint is
\* skipped silently under OR IGNORE and raises sqlite3.IntegrityError
\* otherwise; a stored row gets the next AUTOINCREMENT id.
InsertStmt(orIgnore, table, r, conflict) ==
    IF conflict
    THEN [table |-> table,
          raised |-> IF orIgnore THEN "none" ELSE "IntegrityError",
          lastrowid |-> 0]     \* 0: the statement stored no row
    ELSE [table |-> table \cup {[r EXCEPT !.id = NextRowId(table)]},
          raised |-> "none",
          lastrowid |-> NextRowId(table)]

\* INSERT OR REPLACE in place of INSERT OR IGNORE: the stored row is replaced
InsertSentimentStmtReplace(table, r) ==
    [table |-> {x \in table : ModelKey(x) # ModelKey(r)}
                 \cup {[r EXCEPT !.id = NextRowId(table)]},
     raised |-> "none", lastrowid |-> NextRowId(table)]

\* "INSERT OR IGNORE INTO sentiment_results ..."
InsertSentimentStmt(table, r) ==
    InsertStmt(TRUE, table, r, ConflictModelKey(table, r))

\* "INSERT OR IGNORE INTO emotion_results ..."
InsertEmotionStmt(table, r) ==
    InsertStmt(TRUE, table, r, ConflictModelKey(table, r))

\* "INSERT OR IGNORE INTO linguistic_features ..."
InsertLinguisticStmt(table, r) ==
    InsertStmt(TRUE, table, r, ConflictSourceKey(table, r))

\* blog_posts: FOREIGN KEY (expedition_id) REFERENCES expeditions(number),
\* enforced under "PRAGMA foreign_keys=ON"; a NULL expedition_id refers to
\* nothing
ForeignKeyFails(post) ==
    /\ post.expedition_id # <<>>
    /\ post.expedition_id[1] \notin expeditions

\* "INSERT INTO blog_posts ..." (no OR IGNORE: the caller catches the error)
InsertBlogPostStmt(table, post) ==
    InsertStmt(FALSE, table, post,
               ConflictUrl(table, post) \/ ForeignKeyFails(post))

\* "INSERT INTO oral_histories ...": the table declares no UNIQUE constraint
InsertOralHistoryStmt(table, segment) ==
    InsertStmt(FALSE, table, segment, FALSE)

\* a join on the result's own id in place of its source_id
JoinMatchesOwnId(s, analysis_table, source_type, model_name) ==
    IF model_name # None
    THEN {a \in analysis_table : /\ a.source_type = source_type
                                 /\ a.id = s.id
                                 /\ a.model_name = model_name}
    ELSE {a \in analysis_table : /\ a.source_type = source_type
                                 /\ a.id = s.id}

\* a join that leaves out "a.source_type = ?"
JoinMatchesAnyType(s, analysis_table, source_type, model_name) ==
    IF model_name # None
    THEN {a \in analysis_table : /\ a.source_id = s.id
                                 /\ a.model_name = model_name}
    ELSE {a \in analysis_table : a.source_id = s.id}

\* get_unanalyzed on the result of a LEFT JOIN: the pairs <<s, {a}>> of the
\* join, a source row without a match paired with the empty set (the NULL
\* row), filtered by WHERE a.id IS NULL and projected on s.*
JoinMatches(s, analysis_table, source_type, model_name) ==
    IF model_name # None
    THEN {a \in analysis_table : /\ a.source_type = source_type
                                 /\ a.source_id = s.id
                                 /\ a.model_name = model_name}
    ELSE {a \in analysis_table : /\ a.source_type = source_type
                                 /\ a.source_id = s.id}

LeftJoin(source_table, analysis_table, source_type, model_name) ==
    UNION {
        LET m == JoinMatches(s, analysis_table, source_type, model_name)
        IN  IF m = {} THEN {<<s, {}>>} ELSE {<<s, {a}>> : a \in m}
        : s \in source_table }

get_unanalyzed(source_table, analysis_table, source_type, model_name) ==
    {p[1] : p \in {q \in LeftJoin(source_table, analysis_table,
                                  source_type, model_name) : q[2] = {}}}

(***************************************************************************)
(* SpecStore: the store API of db.py called in any order by two writers,   *)
(* each on its own connection. A call is conn.execute followed by          *)
(* conn.commit; SQLite admits one write transaction at a time, and a       *)
(* process that dies between the two loses the uncommitted row.            *)
(***************************************************************************)
Writers == {"w1", "w2"}
Urls == {"url-a", "url-b"}
Astronauts == {"whitson"}
WordCounts == {MIN_WORDS_FOR_ANALYSIS - 1, MIN_WORDS_FOR_ANALYSIS}

(***************************************************************************)
(* The source set: what blogs.nasa.gov, the oral-history portal and the    *)
(* scoring oracles answer. It is fixed over a behaviour unless an action   *)
(* changes it.                                                             *)
(***************************************************************************)
\* the n-th post of the blog, as the date part of its path and the first
\* 80 characters of its last path segment; the last one shares its last
\* segment with the first
PostUrl(n) == [day |-> n, slug |-> IF n = MaxPages + 1 THEN 1 ELSE n]
PostNumbers == 1..(MaxPages + 1)
\* what the listing page p links to, in page order
ListingPosts(p) == <<PostUrl(p), PostUrl(p + 1)>>
\* what a GET of a post answers: a page (complete, of fewer than
\* MIN_WORDS_FOR_ANALYSIS words, without a datetime, without usable text),
\* an HTTP error status, or no answer in three attempts
PostKinds == {"ok", "brief", "no_time", "no_text", "http_error", "unreachable"}
PostKindsOf(n) ==
    IF n = 1 THEN {"ok", "brief", "unreachable"}
    ELSE IF n = 2 THEN {"ok", "no_time", "http_error"}
    ELSE {"ok", "no_text"}
\* whether the path of the post's URL carries /yyyy/mm/dd/
UrlHasDate(url) == url.day # 2
ListingKinds == {"ok", "http_error"}
\* a transcript of the index and its PDF
TranscriptName(n) == <<"astronaut", n>>
PdfUrl(n) == <<"pdf", n>>
PdfKinds == {"ok", "download_fail", "corrupt", "too_short", "no_segments",
             "stub"}
PdfKindsOf(n) ==
    IF n = 1 THEN {"ok", "corrupt", "download_fail"}
    ELSE IF n = 2 THEN {"ok", "too_short", "no_segments", "stub"}
    ELSE {"ok"}
\* the (analyzer, row) pairs whose scoring raises
ScoringFailures ==
    {{},
     {[analyzer |-> "sentiment", source_type |-> "blog", source_id |-> 1]},
     {[analyzer |-> "emotion", source_type |-> "oral_history", source_id |-> 2]}}
AllWorlds ==
    [max_pages : {<<>>, <<MaxPages>>},
     pagination : {1, MaxPages},
     listing : [1..MaxPages -> ListingKinds],
     post : {f \in [PostNumbers -> PostKinds] :
                \A n \in PostNumbers : f[n] \in PostKindsOf(n)},
     index : {"ok", "fail"},
     pdf : {f \in [1..MaxTranscripts -> PdfKinds] :
                \A n \in 1..MaxTranscripts : f[n] \in PdfKindsOf(n)},
     scoring_fails : ScoringFailures]
\* every page, post and PDF answers in full, every scoring succeeds, the
\* scripts run with their default arguments
QuietWorld ==
    [max_pages |-> <<>>, pagination |-> MaxPages,
     listing |-> [p \in 1..MaxPages |-> "ok"],
     post |-> [n \in PostNumbers |-> "ok"],
     index |-> "ok",
     pdf |-> [n \in 1..MaxTranscripts |-> "ok"],
     scoring_fails |-> {}]

\* in how many places a source set differs from QuietWorld
Faults(w) ==
    (IF w.max_pages # QuietWorld.max_pages THEN 1 ELSE 0)
    + (IF w.pagination # QuietWorld.pagination THEN 1 ELSE 0)
    + Cardinality({p \in 1..MaxPages : w.listing[p] # "ok"})
    + Cardinality({n \in PostNumbers : w.post[n] # "ok"})
    + (IF w.index # "ok" THEN 1 ELSE 0)
    + Cardinality({n \in 1..MaxTranscripts : w.pdf[n] # "ok"})
    + (IF w.scoring_fails # {} THEN 1 ELSE 0)
Worlds == {w \in AllWorlds : Faults(w) <= MaxFaults}

\* the checkpoint file: whether it exists, how much of the JSON text of the
\* latest write reached it ("all", or "none" or "part" after open(path, "w")
\* truncated it and before json.dump finished), and the dict it then encodes
NoCheckpointFile ==
    [exists |-> FALSE, bytes |-> "none", last_listing_page |-> 0,
     scraped_post_urls |-> <<>>]
NotSaved == [saved |-> FALSE, cursor |-> 0, visited |-> {}]
EmptyCheckpoint == [last_listing_page |-> 0, scraped_post_urls |-> <<>>]
NoNet == [event |-> "none", key |-> <<>>, tick |-> 0]

\* neither scraper was ever run: no checkpoint file, empty caches
ScrapersIdle ==
    /\ checkpoint_file = NoCheckpointFile
    /\ html_cache = {}
    /\ blog_pc = "idle"
    /\ checkpoint = EmptyCheckpoint
    /\ scraped_urls = {}
    /\ max_pages = 0
    /\ page_num = 0
    /\ post_metas = <<>>
    /\ meta_index = 1
    /\ blog_runs = 0
    /\ last_saved = NotSaved
    /\ pdf_cache = {}
    /\ oral_pc = "idle"
    /\ transcripts = <<>>
    /\ entry_index = 1
    /\ oral_runs = 0
    /\ io = "none"
    /\ seg_index = 0
    /\ net = NoNet
    /\ crashes = 0
    /\ failed_pages = {}
    /\ failed_posts = {}

\* fetch_page and fetch_url were never called
FetchIdle ==
    /\ fetch_pc = "idle"
    /\ fetch_fn = "fetch_page"
    /\ attempts = <<>>
    /\ waits = <<>>
    /\ fetch_result = "none"
    /\ fetch_calls = 0

\* chunk_text was never called
ChunkIdle ==
    /\ n_tokens = 0
    /\ max_tokens = 1
    /\ overlap = 0
    /\ chunks = <<>>
    /\ chunk_pc = "idle"

\* no analyzer was ever called
ScoreIdle ==
    /\ score_kind = "sentiment"
    /\ oracle_items = <<>>
    /\ chunk_results = <<>>
    /\ score_result = <<>>
    /\ score_pc = "idle"

\* split_segments was never called
SplitIdle ==
    /\ text_lines = <<>>
    /\ interviewer_last_name = <<>>
    /\ split_result = <<>>
    /\ split_pc = "idle"

\* no page was handed to the extraction
PostIdle ==
    /\ page_markup = <<>>
    /\ post_url = <<>>
    /\ post_results = <<>>

\* map_date_to_expedition was never called
MapIdle ==
    /\ map_date = <<>>
    /\ map_expeditions = {}
    /\ map_result = <<>>
    /\ map_pc = "idle"

CallsIdle ==
    FetchIdle /\ ChunkIdle /\ ScoreIdle /\ SplitIdle /\ PostIdle /\ MapIdle

\* no run_analysis invocation was ever started
AnalysisIdle ==
    /\ ar_pc = "idle"
    /\ ar_source_type = "blog"
    /\ analyzers = [sentiment |-> FALSE, emotion |-> FALSE, linguistic |-> FALSE]
    /\ rows = <<>>
    /\ row_index = 1
    /\ ar_status = "none"
    /\ invocation = 0
    /\ failed = {}
    /\ submitted = [analyzer |-> "", source_type |-> "", source_id |-> 0]

NoTxn == [owner |-> "", table |-> "", content |-> {}]
NoCall == [op |-> "", raised |-> "none", ret |-> 0]

SentimentInputs ==
    [id : {0}, source_type : SourceTypes, source_id : 1..MaxSourceId,
     label : {"positive", "negative"}, model_name : ModelNames,
     analyzed_at : {1}]
EmotionInputs ==
    [id : {0}, source_type : SourceTypes, source_id : 1..MaxSourceId,
     dominant_emotion : {"joy"}, model_name : {EMOTION_MODEL},
     analyzed_at : {1}]
LinguisticInputs ==
    [id : {0}, source_type : SourceTypes, source_id : 1..MaxSourceId,
     question_count : {0}, analyzed_at : {1}]
\* the expedition numbers of expeditions.json
ExpeditionNumbers == {1}
\* expedition_id: None, or the number map_date_to_expedition found
NoExpedition == <<>>
BlogPostInputs ==
    [id : {0}, url : Urls, word_count : {MIN_WORDS_FOR_ANALYSIS},
     expedition_id : {NoExpedition} \cup {<<n>> : n \in ExpeditionNumbers}]
OralHistoryInputs ==
    [id : {0}, astronaut_name : Astronauts, segment_index : {0},
     speaker : {"astronaut"}, word_count : {MIN_WORDS_FOR_ANALYSIS}]

InitStore ==
    /\ blog_posts = {}
    /\ oral_histories = {}
    /\ sentiment_results = {}
    /\ emotion_results = {}
    /\ linguistic_features = {}
    /\ txn = NoTxn
    /\ call_result = NoCall
    /\ calls = 0
    /\ now = 1
    /\ AnalysisIdle
    /\ world = QuietWorld
    /\ expeditions \in SUBSET ExpeditionNumbers
    /\ ScrapersIdle
    /\ CallsIdle

\* insert_blog_post: INSERT, commit, return lastrowid; IntegrityError -> -1
InsertBlogPost(post) ==
    LET st == InsertBlogPostStmt(blog_posts, post)
    IN  /\ txn.owner = ""
        /\ calls < MaxCalls
        /\ Cardinality(blog_posts) < MaxSourceId
        /\ calls' = calls + 1
        /\ blog_posts' = st.table
        /\ call_result' = [op |-> "insert_blog_post", raised |-> "none",
                           ret |-> IF st.raised = "IntegrityError"
                                   THEN -1 ELSE st.lastrowid,
                           arg |-> post]
        /\ UNCHANGED <<oral_histories, sentiment_results, emotion_results,
                       linguistic_features, txn, notStore>>

\* the loop of insert_expeditions: INSERT OR IGNORE raises nothing on a
\* stored number, and "count += 1" follows every execute
RECURSIVE insert_expeditions(_, _, _)
insert_expeditions(stored, expedition_list, count) ==
    IF expedition_list = <<>>
    THEN [stored |-> stored, count |-> count]
    ELSE insert_expeditions(stored \cup {Head(expedition_list)},
                            Tail(expedition_list), count + 1)
\* the lists insert_expeditions is called with, as expedition numbers
ExpeditionListInputs ==
    {<<>>} \cup {<<n>> : n \in ExpeditionNumbers}
           \cup {<<n, m>> : n \in ExpeditionNumbers, m \in ExpeditionNumbers}
\* insert_expeditions: the loop, commit, return count
InsertExpeditions(expedition_list) ==
    LET done == insert_expeditions(expeditions, expedition_list, 0)
    IN  /\ txn.owner = ""
        /\ calls < MaxCalls
        /\ calls' = calls + 1
        /\ expeditions' = done.stored
        /\ call_result' = [op |-> "insert_expeditions", raised |-> "none",
                           ret |-> done.count, arg |-> expedition_list]
        /\ UNCHANGED <<tables, txn, analysisVars, clockVars, world, blogVars,
                       oralVars, crawlVars, callVars>>

\* insert_oral_history: INSERT, commit, return lastrowid
InsertOralHistory(segment) ==
    LET st == InsertOralHistoryStmt(oral_histories, segment)
    IN  /\ txn.owner = ""
        /\ calls < MaxCalls
        /\ Cardinality(oral_histories) < MaxSourceId
        /\ calls' = calls + 1
        /\ oral_histories' = st.table
        /\ call_result' = [op |-> "insert_oral_history", raised |-> st.raised,
                           ret |-> st.lastrowid]
        /\ UNCHANGED <<blog_posts, sentiment_results, emotion_results,
                       linguistic_features, txn, notStore>>

\* conn.execute of insert_sentiment / insert_emotion / insert_linguistic by
\* writer w: the statement runs in a write transaction that w now holds
ExecuteInsert(w, name, st) ==
    /\ txn.owner = ""
    /\ calls < MaxCalls
    /\ calls' = calls + 1
    /\ call_result' = [op |-> name, raised |-> st.raised, ret |-> st.lastrowid]
    /\ txn' = IF st.raised = "none"
              THEN [owner |-> w, table |-> name, content |-> st.table]
              ELSE NoTxn
    /\ UNCHANGED <<tables, notStore>>

InsertSentimentExecute(w, result) ==
    ExecuteInsert(w, "sentiment_results",
                  InsertSentimentStmt(sentiment_results, result))

InsertEmotionExecute(w, result) ==
    ExecuteInsert(w, "emotion_results",
                  InsertEmotionStmt(emotion_results, result))

InsertLinguisticExecute(w, features) ==
    ExecuteInsert(w, "linguistic_features",
                  InsertLinguisticStmt(linguistic_features, features))

\* conn.commit of the three result inserts
InsertCommit(w) ==
    /\ txn.owner = w
    /\ sentiment_results' =
          IF txn.table = "sentiment_results" THEN txn.content
          ELSE sentiment_results
    /\ emotion_results' =
          IF txn.table = "emotion_results" THEN txn.content
          ELSE emotion_results
    /\ linguistic_features' =
          IF txn.table = "linguistic_features" THEN txn.content
          ELSE linguistic_features
    /\ txn' = NoTxn
    /\ UNCHANGED <<blog_posts, oral_histories, call_result, calls, notStore>>

\* the writer's process dies before conn.commit: SQLite rolls the open
\* transaction back when the database is next opened
WriterCrash(w) ==
    /\ txn.owner = w
    /\ txn' = NoTxn
    /\ call_result' = NoCall
    /\ UNCHANGED <<tables, calls, notStore>>

NextStore ==
    \/ \E post \in BlogPostInputs : InsertBlogPost(post)
    \/ \E expedition_list \in ExpeditionListInputs :
          InsertExpeditions(expedition_list)
    \/ \E segment \in OralHistoryInputs : InsertOralHistory(segment)
    \/ \E w \in Writers, r \in SentimentInputs : InsertSentimentExecute(w, r)
    \/ \E w \in Writers, r \in EmotionInputs : InsertEmotionExecute(w, r)
    \/ \E w \in Writers, f \in LinguisticInputs : InsertLinguisticExecute(w, f)
    \/ \E w \in Writers : InsertCommit(w)
    \/ \E w \in Writers : WriterCrash(w)

SpecStore == InitStore /\ [][NextStore]_vars

(***************************************************************************)
(* Claims on the store (SpecStore).                                        *)
(***************************************************************************)
UniqueModelKey(table) ==
    \A x, y \in table : ModelKey(x) = ModelKey(y) => x = y
UniqueSourceKey(table) ==
    \A x, y \in table : SourceKey(x) = SourceKey(y) => x = y

ResultKeysUnique ==
    /\ UniqueModelKey(sentiment_results)
    /\ UniqueModelKey(emotion_results)
    /\ UniqueSourceKey(linguistic_features)

ResultInsertOps == {"sentiment_results", "emotion_results", "linguistic_features"}

\* C1: after any sequence of insert_sentiment / insert_emotion /
\* insert_linguistic calls by two writers, each results table holds at most
\* one row per uniqueness key, no such call raises, and every stored row is
\* still stored, unchanged, after the next step (first write wins: a call
\* whose key is already stored changes nothing).
C1_InsertIgnoresConflict ==
    [][ /\ ResultKeysUnique'
        /\ (call_result'.op \in ResultInsertOps => call_result'.raised = "none")
        /\ sentiment_results \subseteq sentiment_results'
        /\ emotion_results \subseteq emotion_results'
        /\ linguistic_features \subseteq linguistic_features'
        /\ (txn'.owner # "" /\ call_result'.ret = 0
              => txn'.content \in {sentiment_results, emotion_results,
                                   linguistic_features}) ]_vars

\* C1 witness: writer w2 has just repeated a key that is stored with another
\* label, and its statement stored nothing
C1_Witness ==
    /\ call_result.op = "sentiment_results"
    /\ call_result.ret = 0
    /\ txn.owner = "w2"
    /\ \E x \in sentiment_results :
          x.label = "negative" /\ ModelKey(x) = <<"blog", 1, SENTIMENT_MODEL>>
    /\ Cardinality(sentiment_results) = 2

SourceTables == {blog_posts, oral_histories}

\* the ids get_unanalyzed returns for a results table with a model_name column
UnanalyzedIds(source_table, analysis_table, source_type, model_name) ==
    {s.id : s \in get_unanalyzed(source_table, analysis_table,
                                 source_type, model_name)}

NeverUnanalyzedAgain(analysis_table, analysis_table_next, S_next) ==
    \A a \in analysis_table :
        a.source_id \notin UnanalyzedIds(S_next, analysis_table_next,
                                         a.source_type, a.model_name)

\* C2: once a result row is stored for (source_type, source_id, model_name),
\* get_unanalyzed called with that source_type and model_name does not
\* return the source row with that id in the state after any step (insert,
\* commit or crash of a writer), for either source table.
C2_ResultStaysAnalyzed ==
    [][ \A S \in {blog_posts', oral_histories'} :
          /\ NeverUnanalyzedAgain(sentiment_results, sentiment_results', S)
          /\ NeverUnanalyzedAgain(emotion_results, emotion_results', S)
          /\ NeverUnanalyzedAgain(sentiment_results', sentiment_results', S)
          /\ NeverUnanalyzedAgain(emotion_results', emotion_results', S) ]_vars

\* C2 witness: blog post 2 has a sentiment result and is no longer returned,
\* blog post 1 has none and still is
C2_Witness ==
    /\ \E a \in sentiment_results :
          ModelKey(a) = <<"blog", 2, SENTIMENT_MODEL>>
    /\ UnanalyzedIds(blog_posts, sentiment_results, "blog", SENTIMENT_MODEL)
          = {1}
    /\ Cardinality(blog_posts) = 2

\* the rows of source_table with no result for the given tuple
WithoutResult(source_table, analysis_table, source_type, model_name) ==
    {s \in source_table :
        ~ \E a \in analysis_table :
            /\ a.source_type = source_type
            /\ a.source_id = s.id
            /\ (model_name # None => a.model_name = model_name)}

\* C3: get_unanalyzed returns exactly the source rows with no result row of
\* the given source_type, source_id = id and (when given) model_name; with
\* model_name absent any result for (source_type, id) removes the row.
C3_UnanalyzedIsAntiJoin ==
    \A S \in SourceTables, st \in SourceTypes :
        /\ \A A \in {sentiment_results, emotion_results} :
             \A m \in ModelNames \cup {None} :
                get_unanalyzed(S, A, st, m) = WithoutResult(S, A, st, m)
        /\ get_unanalyzed(S, linguistic_features, st, None)
             = {s \in S : \A a \in linguistic_features :
                             SourceKey(a) # <<st, s.id>>}

\* C3 witness: blog post 1 has a sentiment result under the other model name
\* and an oral-history result with the same numeric id; it is still returned
\* for ("blog", SENTIMENT_MODEL), and not when model_name is absent
C3_Witness ==
    /\ \E s \in blog_posts : s.id = 1
    /\ {ModelKey(a) : a \in sentiment_results}
          = {<<"blog", 1, EMOTION_MODEL>>, <<"oral_history", 1, SENTIMENT_MODEL>>}
    /\ UnanalyzedIds(blog_posts, sentiment_results, "blog", SENTIMENT_MODEL) = {1}
    /\ UnanalyzedIds(blog_posts, sentiment_results, "blog", None) = {}

(***************************************************************************)
(* run_analysis and _analyze_rows of src/analysis/runner.py                *)
(***************************************************************************)
Analyzers == {"sentiment", "emotion", "linguistic"}
\* where one analysis type of one row can raise inside its try block: while
\* chunking (before the oracle is called), in the oracle or the aggregation
\* (after the text was submitted), or in the insert
Outcomes == {"ok", "chunk_fail", "score_fail", "aggregate_fail", "insert_fail"}
NoSubmission == [analyzer |-> "", source_type |-> "", source_id |-> 0]

\* fetchall() of a scan of the source table: rows in rowid order
RECURSIVE SortById(_)
SortById(S) ==
    IF S = {} THEN <<>>
    ELSE LET r == CHOOSE x \in S : \A y \in S : x.id <= y.id
         IN  <<r>> \o SortById(S \ {r})

HasSentiment(st, id) ==
    \E a \in sentiment_results : ModelKey(a) = <<st, id, SENTIMENT_MODEL>>
HasEmotion(st, id) ==
    \E a \in emotion_results : ModelKey(a) = <<st, id, EMOTION_MODEL>>
HasLinguistic(st, id) ==
    \E a \in linguistic_features : SourceKey(a) = <<st, id>>
HasResult(analyzer, st, id) ==
    CASE analyzer = "sentiment" -> HasSentiment(st, id)
      [] analyzer = "emotion" -> HasEmotion(st, id)
      [] OTHER -> HasLinguistic(st, id)

\* run_analysis: the anti-join of the first enabled analyzer alone selects
\* the rows handed to _analyze_rows
SelectUnanalyzed(source_table, source_type) ==
    IF analyzers.sentiment
    THEN get_unanalyzed(source_table, sentiment_results, source_type,
                        SENTIMENT_MODEL)
    ELSE IF analyzers.emotion
    THEN get_unanalyzed(source_table, emotion_results, source_type,
                        EMOTION_MODEL)
    ELSE IF analyzers.linguistic
    THEN get_unanalyzed(source_table, linguistic_features, source_type, None)
    ELSE {}

\* one try block around the three analysis types of a row: the first failure
\* skips the rest of the row
AfterAnalyzerOneTry(analyzer, outcome) ==
    IF outcome # "ok" THEN "next_row"
    ELSE CASE analyzer = "sentiment" -> "emotion"
           [] analyzer = "emotion" -> "linguistic"
           [] OTHER -> "next_row"

\* _analyze_rows: where control goes after the try/except of one analyzer
AfterAnalyzer(analyzer, outcome) ==
    CASE analyzer = "sentiment" -> "emotion"
      [] analyzer = "emotion" -> "linguistic"
      [] OTHER -> "next_row"

\* the control state after the block of `analyzer` for the current row
Advance(analyzer, outcome) ==
    LET to == AfterAnalyzer(analyzer, outcome)
    IN  IF to = "next_row"
        THEN ar_pc' = "row" /\ row_index' = row_index + 1
        ELSE ar_pc' = to /\ UNCHANGED row_index

\* run_analysis(db_path, skip_sentiment, skip_emotion, skip_linguistic)
RunAnalysis(skip_sentiment, skip_emotion, skip_linguistic) ==
    /\ ar_pc = "idle"
    /\ invocation < MaxRuns
    /\ invocation' = invocation + 1
    /\ analyzers' = [sentiment |-> ~skip_sentiment, emotion |-> ~skip_emotion,
                     linguistic |-> ~skip_linguistic]
    /\ ar_pc' = "select"
    /\ ar_source_type' = "blog"
    /\ ar_status' = "none"
    /\ rows' = <<>>
    /\ row_index' = 1
    /\ failed' = {}
    /\ submitted' = NoSubmission
    /\ UNCHANGED <<tables, notAnalysis>>

\* blog_rows = get_unanalyzed(conn, "blog_posts", ...)
SelectBlogRows ==
    /\ ar_pc = "select"
    /\ ar_source_type = "blog"
    /\ rows' = SortById(SelectUnanalyzed(blog_posts, "blog"))
    /\ row_index' = 1
    /\ ar_pc' = "row"
    /\ submitted' = NoSubmission
    /\ UNCHANGED <<tables, notAnalysis, ar_source_type, analyzers, ar_status,
                   invocation, failed>>

\* oh_rows = get_unanalyzed(conn, "oral_histories", ...), astronaut turns only
SelectOralHistoryRows ==
    /\ ar_pc = "select"
    /\ ar_source_type = "oral_history"
    /\ rows' = SortById({r \in SelectUnanalyzed(oral_histories, "oral_history") :
                            r.speaker = "astronaut"})
    /\ row_index' = 1
    /\ ar_pc' = "row"
    /\ submitted' = NoSubmission
    /\ UNCHANGED <<tables, notAnalysis, ar_source_type, analyzers, ar_status,
                   invocation, failed>>

\* a loop that skips a row only when it has no word at all
NoWordAtAll(row) == row.word_count < 1
\* _analyze_rows: "if word_count < MIN_WORDS_FOR_ANALYSIS"
TooFewWords(row) == row.word_count < MIN_WORDS_FOR_ANALYSIS

\* _analyze_rows: the head of the loop body, "if word_count < 10: continue"
BeginRow ==
    /\ ar_pc = "row"
    /\ row_index <= Len(rows)
    /\ IF TooFewWords(rows[row_index])
       THEN ar_pc' = "row" /\ row_index' = row_index + 1
       ELSE ar_pc' = "sentiment" /\ UNCHANGED row_index
    /\ submitted' = NoSubmission
    /\ UNCHANGED <<tables, notAnalysis, ar_source_type, analyzers, rows,
                   ar_status, invocation, failed>>

\* the bookkeeping of one analyzer block: the text is given to the oracle
\* unless chunking raised, and a raise is logged and swallowed
Block(analyzer, outcome, oracle) ==
    LET key == [analyzer |-> analyzer, source_type |-> ar_source_type,
                source_id |-> rows[row_index].id]
    IN  /\ submitted' = IF oracle /\ outcome # "chunk_fail"
                        THEN key ELSE NoSubmission
        /\ failed' = IF outcome = "ok" THEN failed ELSE failed \cup {key}
        /\ Advance(analyzer, outcome)
        /\ UNCHANGED <<blog_posts, oral_histories, notAnalysis, ar_source_type,
                       analyzers, rows, ar_status, invocation>>

\* _analyze_rows: "if sentiment_analyzer: try: ... insert_sentiment(conn, result)"
AnalyzeSentiment(outcome) ==
    /\ ar_pc = "sentiment"
    /\ IF analyzers.sentiment
       THEN /\ Block("sentiment", outcome, TRUE)
            /\ sentiment_results' =
                 IF outcome = "ok"
                 THEN InsertSentimentStmt(sentiment_results,
                        [id |-> 0, source_type |-> ar_source_type,
                         source_id |-> rows[row_index].id,
                         label |-> "positive", model_name |-> SENTIMENT_MODEL,
                         analyzed_at |-> now]).table
                 ELSE sentiment_results
            /\ UNCHANGED <<emotion_results, linguistic_features>>
       ELSE /\ outcome = "ok"
            /\ ar_pc' = "emotion"
            /\ submitted' = NoSubmission
            /\ UNCHANGED <<tables, notAnalysis, ar_source_type, analyzers, rows,
                           row_index, ar_status, invocation, failed>>

\* _analyze_rows: "if emotion_analyzer: try: ... insert_emotion(conn, result)"
AnalyzeEmotion(outcome) ==
    /\ ar_pc = "emotion"
    /\ IF analyzers.emotion
       THEN /\ Block("emotion", outcome, TRUE)
            /\ emotion_results' =
                 IF outcome = "ok"
                 THEN InsertEmotionStmt(emotion_results,
                        [id |-> 0, source_type |-> ar_source_type,
                         source_id |-> rows[row_index].id,
                         dominant_emotion |-> "joy",
                         model_name |-> EMOTION_MODEL,
                         analyzed_at |-> now]).table
                 ELSE emotion_results
            /\ UNCHANGED <<sentiment_results, linguistic_features>>
       ELSE /\ outcome = "ok"
            /\ ar_pc' = "linguistic"
            /\ submitted' = NoSubmission
            /\ UNCHANGED <<tables, notAnalysis, ar_source_type, analyzers, rows,
                           row_index, ar_status, invocation, failed>>

\* _analyze_rows: "if linguistic_analyzer: try: ... insert_linguistic(conn, features)"
AnalyzeLinguistic(outcome) ==
    /\ ar_pc = "linguistic"
    /\ outcome \in {"ok", "score_fail", "insert_fail"}
    /\ IF analyzers.linguistic
       THEN /\ Block("linguistic", outcome, FALSE)
            /\ linguistic_features' =
                 IF outcome = "ok"
                 THEN InsertLinguisticStmt(linguistic_features,
                        [id |-> 0, source_type |-> ar_source_type,
                         source_id |-> rows[row_index].id,
                         question_count |-> 0,
                         analyzed_at |-> now]).table
                 ELSE linguistic_features
            /\ UNCHANGED <<sentiment_results, emotion_results>>
       ELSE /\ outcome = "ok"
            /\ ar_pc' = "row"
            /\ row_index' = row_index + 1
            /\ submitted' = NoSubmission
            /\ UNCHANGED <<tables, notAnalysis, ar_source_type, analyzers, rows,
                           ar_status, invocation, failed>>

\* the end of _analyze_rows for the blog posts: on to the oral histories
EndBlogRows ==
    /\ ar_pc = "row"
    /\ row_index > Len(rows)
    /\ ar_source_type = "blog"
    /\ ar_source_type' = "oral_history"
    /\ ar_pc' = "select"
    /\ submitted' = NoSubmission
    /\ UNCHANGED <<tables, notAnalysis, analyzers, rows, row_index, ar_status,
                   invocation, failed>>

\* the end of _analyze_rows for the oral histories: conn.close(), return
EndOralHistoryRows ==
    /\ ar_pc = "row"
    /\ row_index > Len(rows)
    /\ ar_source_type = "oral_history"
    /\ ar_pc' = "idle"
    /\ ar_status' = "complete"
    /\ ar_source_type' = "blog"
    /\ rows' = <<>>
    /\ row_index' = 1
    /\ submitted' = NoSubmission
    /\ UNCHANGED <<tables, notAnalysis, analyzers, invocation, failed>>

\* the process is killed during run_analysis: the committed rows stay, what
\* the process held in memory is gone
AnalysisCrash ==
    /\ ar_pc # "idle"
    /\ ar_pc' = "idle"
    /\ ar_status' = "crashed"
    /\ ar_source_type' = "blog"
    /\ analyzers' = [sentiment |-> FALSE, emotion |-> FALSE, linguistic |-> FALSE]
    /\ rows' = <<>>
    /\ row_index' = 1
    /\ failed' = {}
    /\ submitted' = NoSubmission
    /\ UNCHANGED <<tables, notAnalysis, invocation>>

InterviewerTurn ==
    [id |-> 1, astronaut_name |-> "whitson", segment_index |-> 0,
     speaker |-> "interviewer", word_count |-> MIN_WORDS_FOR_ANALYSIS]
AstronautTurn ==
    [id |-> 2, astronaut_name |-> "whitson", segment_index |-> 1,
     speaker |-> "astronaut", word_count |-> MIN_WORDS_FOR_ANALYSIS]

\* a store the scrapers filled, with no result yet: either MaxSourceId blog
\* posts of either length and an interviewer turn, or one blog post and a
\* transcript of an interviewer turn and an astronaut turn
InitAnalysis ==
    /\ \/ /\ \E wc \in [1..MaxSourceId -> WordCounts] :
                blog_posts = {[id |-> n, url |-> <<"url", n>>,
                               word_count |-> wc[n]] : n \in 1..MaxSourceId}
          /\ oral_histories = {InterviewerTurn}
       \/ /\ blog_posts = {[id |-> 1, url |-> <<"url", 1>>,
                             word_count |-> MIN_WORDS_FOR_ANALYSIS]}
          /\ oral_histories = {InterviewerTurn, AstronautTurn}
    /\ sentiment_results = {}
    /\ emotion_results = {}
    /\ linguistic_features = {}
    /\ txn = NoTxn
    /\ call_result = NoCall
    /\ calls = 0
    /\ now = 1
    /\ AnalysisIdle
    /\ world = QuietWorld
    /\ expeditions = {}
    /\ ScrapersIdle
    /\ CallsIdle

NextAnalysis ==
    \/ \E ss, se, sl \in BOOLEAN : RunAnalysis(ss, se, sl)
    \/ SelectBlogRows
    \/ SelectOralHistoryRows
    \/ BeginRow
    \/ \E o \in Outcomes : AnalyzeSentiment(o)
    \/ \E o \in Outcomes : AnalyzeEmotion(o)
    \/ \E o \in Outcomes : AnalyzeLinguistic(o)
    \/ EndBlogRows
    \/ EndOralHistoryRows
    \/ AnalysisCrash

SpecAnalysis == InitAnalysis /\ [][NextAnalysis]_vars

(***************************************************************************)
(* Claims on run_analysis (SpecAnalysis).                                  *)
(***************************************************************************)
\* the rows run_analysis is meant to analyse
EligibleRows(source_type) ==
    IF source_type = "blog"
    THEN {r \in blog_posts : r.word_count >= MIN_WORDS_FOR_ANALYSIS}
    ELSE {r \in oral_histories : /\ r.word_count >= MIN_WORDS_FOR_ANALYSIS
                                 /\ r.speaker = "astronaut"}

FailedAnalyzers == {k.analyzer : k \in failed}

\* C5: an invocation of run_analysis that enables an analyzer, and in which
\* that analyzer never fails, leaves every eligible source row with a stored
\* result of that analyzer, whatever earlier invocations stored.
C5_AnalyzersIndependent ==
    (ar_pc = "idle" /\ ar_status = "complete") =>
        \A X \in Analyzers :
            (analyzers[X] /\ X \notin FailedAnalyzers) =>
                \A st \in SourceTypes : \A r \in EligibleRows(st) :
                    HasResult(X, st, r.id)

\* C6: no step of run_analysis gives a scoring oracle an entity for which a
\* result of that oracle's model is already stored.
C6_ScoredOncePerModel ==
    [][ submitted'.analyzer # "" =>
          ~ HasResult(submitted'.analyzer, submitted'.source_type,
                      submitted'.source_id) ]_vars

\* the analyzers whose block the loop has passed for row j of the batch
BlocksPassed(j) ==
    IF j < row_index THEN Analyzers
    ELSE IF j > row_index \/ ar_pc \in {"row", "sentiment"} THEN {}
    ELSE IF ar_pc = "emotion" THEN {"sentiment"}
    ELSE {"sentiment", "emotion"}

\* C7: in _analyze_rows a failure of one analysis type for one row omits that
\* one result only: for every row of the batch with at least 10 words, each
\* enabled analyzer whose block the loop has passed has either stored its
\* result or failed for that very row, and the loop reaches the end of the
\* batch only past every row.
C7_FailureOmitsOneResult ==
    ar_pc \in {"row", "sentiment", "emotion", "linguistic"} =>
        \A j \in 1..Len(rows) :
            rows[j].word_count >= MIN_WORDS_FOR_ANALYSIS =>
                \A X \in BlocksPassed(j) :
                    analyzers[X] =>
                        \/ HasResult(X, ar_source_type, rows[j].id)
                        \/ [analyzer |-> X, source_type |-> ar_source_type,
                            source_id |-> rows[j].id] \in failed

\* C7 witness: the loop is past a batch of two blog posts; sentiment failed
\* for the first, whose emotion and linguistic results are stored, and the
\* second post has its sentiment result
C7_Witness ==
    /\ ar_pc = "row"
    /\ ar_source_type = "blog"
    /\ Len(rows) = 2
    /\ row_index = 3
    /\ analyzers = [sentiment |-> TRUE, emotion |-> TRUE, linguistic |-> TRUE]
    /\ [analyzer |-> "sentiment", source_type |-> "blog", source_id |-> 1]
         \in failed
    /\ ~ HasSentiment("blog", 1)
    /\ HasEmotion("blog", 1)
    /\ HasLinguistic("blog", 1)
    /\ HasSentiment("blog", 2)

(***************************************************************************)
(* ISSBlogScraper of src/scraping/iss_blog_scraper.py                      *)
(***************************************************************************)
\* list(s) of a Python set: its elements once each, in an order the caller
\* does not control
list(S) ==
    {f \in [1..Cardinality(S) -> S] : \A x \in S : \E i \in DOMAIN f : f[i] = x}
\* set(l) of a Python list
set(l) == {l[i] : i \in DOMAIN l}

\* json.dump of the checkpoint dict into the checkpoint file
json_dump(cp) ==
    [exists |-> TRUE, bytes |-> "all",
     last_listing_page |-> cp.last_listing_page,
     scraped_post_urls |-> cp.scraped_post_urls]

\* open(self.checkpoint_path, "w"): the file exists and is empty
open_w(file) ==
    [exists |-> TRUE, bytes |-> "none", last_listing_page |-> 0,
     scraped_post_urls |-> <<>>]

\* the buffer of json.dump flushed in part: a prefix of the JSON text
write_part(file) == [file EXCEPT !.bytes = "part"]

\* json.load raises JSONDecodeError on an empty file and on a strict prefix
\* of the text of a JSON object
LoadRaises(file) == file.exists /\ file.bytes # "all"

\* a load that restores the cursor and forgets the visited URLs
load_checkpoint_cursor_only(file) ==
    [last_listing_page |-> file.last_listing_page, scraped_post_urls |-> <<>>]

\* _load_checkpoint: json.load of the file when it exists, a new dict otherwise
load_checkpoint(file) ==
    IF file.exists
    THEN [last_listing_page |-> file.last_listing_page,
          scraped_post_urls |-> file.scraped_post_urls]
    ELSE EmptyCheckpoint

ListingKey(p) == <<"listing", p>>
\* a key made of the whole URL
PostKeyWholeUrl(url) == <<"post", url>>
\* cache_key = f"post_{slug[:80]}": only the last path segment of the URL
PostKey(url) == <<"post", url.slug>>
\* _get_cached_html
Cached(key) == \E c \in html_cache : c.key = key
CachedBody(key) == (CHOOSE c \in html_cache : c.key = key).body

\* fetch_page(LISTING_URL.format(page_num)): raises unless the page answers
ListingFetch(p) == IF p \in 1..MaxPages THEN world.listing[p] ELSE "http_error"
\* fetch_page(url) of a post
PostFetch(url) ==
    IF world.post[url.day] \in {"http_error", "unreachable"}
    THEN world.post[url.day] ELSE "ok"

\* scrape_full_post, from the parse on: the BlogPost built from the page
\* `body` for `url`, or nothing. The dates of the posts of the source set
\* fall in no expedition of expeditions.json.
ParsePost(body, url) ==
    LET kind == world.post[body]
    IN  IF kind = "no_time" /\ ~UrlHasDate(url) THEN <<>>
        ELSE IF kind = "no_text" THEN <<>>
        ELSE <<[id |-> 0, url |-> url,
                word_count |-> IF kind = "brief"
                               THEN MIN_WORDS_FOR_ANALYSIS - 1
                               ELSE MIN_WORDS_FOR_ANALYSIS,
                expedition_id |-> <<>>]>>

\* scrape_full_post(url): the cache after the call, the exception that left
\* it, and the post it returned
scrape_full_post(url) ==
    IF Cached(PostKey(url))
    THEN [cache |-> html_cache, raised |-> "none",
          post |-> ParsePost(CachedBody(PostKey(url)), url)]
    ELSE IF PostFetch(url) = "http_error"
    THEN [cache |-> html_cache, raised |-> "none", post |-> <<>>]
    ELSE IF PostFetch(url) = "unreachable"
    THEN [cache |-> html_cache, raised |-> "RetryError", post |-> <<>>]
    ELSE [cache |-> html_cache \cup {[key |-> PostKey(url), body |-> url.day]},
          raised |-> "none", post |-> ParsePost(url.day, url)]

\* a run that starts at the first page whatever the checkpoint says
StartPageFirst(cp) == 1

\* a run that takes up the page of the saved cursor again
StartPageSaved(cp) ==
    IF cp.last_listing_page = 0 THEN 1 ELSE cp.last_listing_page

\* run: start_page = checkpoint.get("last_listing_page", 0) + 1
StartPage(cp) == cp.last_listing_page + 1

\* run: whether the call of detect_max_pages leaves run with an exception
DetectRaises(max_pages_arg) ==
    /\ max_pages_arg = <<>>
    /\ ~Cached(ListingKey(1))
    /\ ListingFetch(1) # "ok"

\* run(max_pages): load the checkpoint, find the last page, enter the loop;
\* max_pages_arg is <<>> for None and <<n>> for n
BlogRun(max_pages_arg) ==
    LET cp == load_checkpoint(checkpoint_file)
    IN  /\ blog_pc \notin {"page", "post"}
        /\ blog_runs < MaxRuns
        /\ blog_runs' = blog_runs + 1
        /\ checkpoint' = cp
        /\ scraped_urls' = set(cp.scraped_post_urls)
        /\ post_metas' = <<>>
        /\ meta_index' = 1
        /\ IF LoadRaises(checkpoint_file) \/ DetectRaises(max_pages_arg)
           THEN /\ blog_pc' = "raised"
                /\ max_pages' = 0
                /\ page_num' = 0
                /\ UNCHANGED html_cache
           ELSE /\ blog_pc' = "page"
                /\ max_pages' = IF max_pages_arg = <<>>
                                THEN world.pagination ELSE max_pages_arg[1]
                /\ page_num' = StartPage(cp)
                /\ html_cache' =
                     IF max_pages_arg = <<>> /\ ListingFetch(1) = "ok"
                     THEN html_cache \cup {[key |-> ListingKey(1), body |-> 1]}
                     ELSE html_cache
        /\ UNCHANGED <<tables, notBlog, checkpoint_file, last_saved>>

\* the head of the page loop: scrape_listing_page(page_num) inside its try
ScrapeListingPage ==
    /\ blog_pc = "page"
    /\ page_num <= max_pages
    /\ IF Cached(ListingKey(page_num)) \/ ListingFetch(page_num) = "ok"
       THEN /\ html_cache' = html_cache \cup
                   {[key |-> ListingKey(page_num), body |-> page_num]}
            /\ post_metas' = ListingPosts(page_num)
            /\ meta_index' = 1
            /\ blog_pc' = "post"
            /\ UNCHANGED page_num
       ELSE /\ page_num' = page_num + 1
            /\ UNCHANGED <<html_cache, post_metas, meta_index, blog_pc>>
    /\ UNCHANGED <<tables, notBlog, checkpoint_file, checkpoint, scraped_urls,
                   max_pages, blog_runs, last_saved>>

\* the body of the post loop for post_metas[meta_index]
ScrapePost ==
    /\ blog_pc = "post"
    /\ meta_index <= Len(post_metas)
    /\ LET url == post_metas[meta_index]
           r == scrape_full_post(url)
       IN  IF url \in scraped_urls
           THEN UNCHANGED <<blog_posts, html_cache, scraped_urls>>
           ELSE /\ html_cache' = r.cache
                /\ IF r.raised = "none" /\ r.post # <<>>
                   THEN /\ blog_posts' =
                             InsertBlogPostStmt(blog_posts, r.post[1]).table
                        /\ scraped_urls' = scraped_urls \cup {url}
                   ELSE UNCHANGED <<blog_posts, scraped_urls>>
    /\ meta_index' = meta_index + 1
    /\ UNCHANGED <<oral_histories, sentiment_results, emotion_results,
                   linguistic_features, notBlog, checkpoint_file, blog_pc,
                   checkpoint, max_pages, page_num, post_metas, blog_runs,
                   last_saved>>

\* the tail of the page loop: the checkpoint is updated and saved
SavePageCheckpoint ==
    /\ blog_pc = "post"
    /\ meta_index > Len(post_metas)
    /\ \E order \in list(scraped_urls) :
          /\ checkpoint' = [last_listing_page |-> page_num,
                            scraped_post_urls |-> order]
          /\ checkpoint_file' = json_dump(checkpoint')
    /\ last_saved' = [saved |-> TRUE, cursor |-> page_num,
                      visited |-> scraped_urls]
    /\ page_num' = page_num + 1
    /\ post_metas' = <<>>
    /\ meta_index' = 1
    /\ blog_pc' = "page"
    /\ UNCHANGED <<tables, notBlog, html_cache, scraped_urls, max_pages,
                   blog_runs>>

\* range(start_page, max_pages + 1) is exhausted: run returns
BlogReturn ==
    /\ blog_pc = "page"
    /\ page_num > max_pages
    /\ blog_pc' = "returned"
    /\ checkpoint' = EmptyCheckpoint
    /\ scraped_urls' = {}
    /\ UNCHANGED <<tables, notBlog, checkpoint_file, html_cache, max_pages,
                   page_num, post_metas, meta_index, blog_runs, last_saved>>

(***************************************************************************)
(* OralHistoryScraper of src/scraping/oral_history_scraper.py              *)
(***************************************************************************)
NoPdfUrl == <<>>
\* the fallback of fetch_transcript_index: names without a pdf_url
KNOWN_PARTICIPANTS ==
    [n \in 1..MaxTranscripts |-> [name |-> TranscriptName(n), pdf_url |-> NoPdfUrl]]

\* fetch_transcript_index: the PDF links of the index page, or the fallback
\* list when the fetch raises or finds no link
fetch_transcript_index ==
    IF world.index = "ok"
    THEN [n \in 1..MaxTranscripts |->
            [name |-> TranscriptName(n), pdf_url |-> PdfUrl(n)]]
    ELSE KNOWN_PARTICIPANTS

PdfKind(pdf_url) == world.pdf[pdf_url[2]]
\* download_pdf: "dest.exists() and dest.stat().st_size > 1000"
PdfCached(pdf_url) == pdf_url \in pdf_cache /\ PdfKind(pdf_url) # "stub"
\* download_pdf returns a path: the cached file, or the one just written
Downloaded(pdf_url) == PdfCached(pdf_url) \/ PdfKind(pdf_url) # "download_fail"

\* split_segments of the cleaned text of a transcript: an interviewer turn
\* and an astronaut turn
Segments(pdf_url) ==
    IF PdfKind(pdf_url) = "ok"
    THEN <<[speaker |-> "interviewer", word_count |-> MIN_WORDS_FOR_ANALYSIS],
           [speaker |-> "astronaut", word_count |-> MIN_WORDS_FOR_ANALYSIS]>>
    ELSE <<>>

\* the loop of process_transcript: insert_oral_history for segments idx..
RECURSIVE InsertSegments(_, _, _, _)
InsertSegments(table, name, segments, idx) ==
    IF idx >= Len(segments) THEN table
    ELSE InsertSegments(
           InsertOralHistoryStmt(table,
              [id |-> 0, astronaut_name |-> name, segment_index |-> idx,
               speaker |-> segments[idx + 1].speaker,
               word_count |-> segments[idx + 1].word_count]).table,
           name, segments, idx + 1)

\* a run that downloads and processes a transcript whether or not the store
\* already holds segments of that astronaut
HasSegmentsNever(name) == FALSE

\* a run that skips an astronaut only when the second segment is stored
HasSecondSegment(name) ==
    \E r \in oral_histories : r.astronaut_name = name /\ r.segment_index = 1

\* run: SELECT COUNT(*) FROM oral_histories WHERE astronaut_name = ? is > 0
HasSegments(name) == \E r \in oral_histories : r.astronaut_name = name

\* run(): fetch the index
OralRun ==
    /\ oral_pc \notin {"entry"}
    /\ oral_runs < MaxRuns
    /\ oral_runs' = oral_runs + 1
    /\ transcripts' = fetch_transcript_index
    /\ entry_index' = 1
    /\ oral_pc' = "entry"
    /\ UNCHANGED <<tables, notOral, pdf_cache>>

\* the body of the loop for transcripts[entry_index]; extract_text raising on
\* the file leaves process_transcript and run
ProcessEntry ==
    /\ oral_pc = "entry"
    /\ entry_index <= Len(transcripts)
    /\ LET entry == transcripts[entry_index]
       IN  IF entry.pdf_url = NoPdfUrl \/ HasSegments(entry.name)
           THEN /\ entry_index' = entry_index + 1
                /\ UNCHANGED <<oral_histories, pdf_cache, oral_pc>>
           ELSE IF ~Downloaded(entry.pdf_url)
           THEN /\ entry_index' = entry_index + 1
                /\ UNCHANGED <<oral_histories, pdf_cache, oral_pc>>
           ELSE /\ pdf_cache' = pdf_cache \cup {entry.pdf_url}
                /\ IF PdfKind(entry.pdf_url) = "corrupt"
                   THEN /\ oral_pc' = "raised"
                        /\ UNCHANGED <<oral_histories, entry_index>>
                   ELSE /\ oral_histories' =
                             InsertSegments(oral_histories, entry.name,
                                            Segments(entry.pdf_url), 0)
                        /\ entry_index' = entry_index + 1
                        /\ UNCHANGED oral_pc
    /\ UNCHANGED <<blog_posts, sentiment_results, emotion_results,
                   linguistic_features, notOral, transcripts, oral_runs>>

\* the transcripts are exhausted: run returns
OralReturn ==
    /\ oral_pc = "entry"
    /\ entry_index > Len(transcripts)
    /\ oral_pc' = "returned"
    /\ UNCHANGED <<tables, notOral, pdf_cache, transcripts, entry_index,
                   oral_runs>>

(***************************************************************************)
(* SpecPipeline: scripts/scrape.py then scripts/analyze.py, with their     *)
(* default arguments apart from --max-pages, run MaxRuns times over a      *)
(* source set that does not change.                                        *)
(***************************************************************************)
ScrapeOver ==
    \/ blog_pc = "raised"
    \/ blog_pc = "returned" /\ oral_pc \in {"returned", "raised"}

\* scripts/scrape.py main(): a new process constructs the scrapers
ScrapeMain ==
    /\ ar_pc = "idle"
    /\ invocation = blog_runs
    /\ blog_runs < MaxRuns
    /\ blog_runs = 0 => blog_pc = "idle"
    /\ blog_runs > 0 => ScrapeOver
    /\ blog_pc' = "ready"
    /\ oral_pc' = "idle"
    /\ now' = now + 1
    /\ max_pages' = 0
    /\ page_num' = 0
    /\ transcripts' = <<>>
    /\ entry_index' = 1
    /\ UNCHANGED <<tables, storeApiVars, analysisVars, worldVars,
                   checkpoint_file, html_cache, checkpoint, scraped_urls,
                   post_metas, meta_index, blog_runs, last_saved, pdf_cache,
                   oral_runs, crawlVars, callVars>>

\* main(): scraper.run(max_pages=args.max_pages, mvp_mode=args.mvp)
MainBlogRun == blog_pc = "ready" /\ BlogRun(world.max_pages)
\* main(): the second scraper.run(), reached when the first returned
MainOralRun == blog_pc = "returned" /\ oral_pc = "idle" /\ OralRun
\* scripts/analyze.py main(): run_analysis with no --skip flag
MainRunAnalysis ==
    /\ ScrapeOver
    /\ invocation < blog_runs
    /\ RunAnalysis(FALSE, FALSE, FALSE)

\* what the oracle of `analyzer` does with the current row
Scoring(analyzer) ==
    IF ar_pc = analyzer
       /\ [analyzer |-> analyzer, source_type |-> ar_source_type,
           source_id |-> rows[row_index].id] \in world.scoring_fails
    THEN "score_fail" ELSE "ok"

InitPipeline ==
    /\ blog_posts = {}
    /\ oral_histories = {}
    /\ sentiment_results = {}
    /\ emotion_results = {}
    /\ linguistic_features = {}
    /\ txn = NoTxn
    /\ call_result = NoCall
    /\ calls = 0
    /\ now = 0
    /\ AnalysisIdle
    /\ world \in Worlds
    /\ expeditions = {}
    /\ ScrapersIdle
    /\ CallsIdle

NextPipeline ==
    \/ ScrapeMain
    \/ MainBlogRun
    \/ ScrapeListingPage
    \/ ScrapePost
    \/ SavePageCheckpoint
    \/ BlogReturn
    \/ MainOralRun
    \/ ProcessEntry
    \/ OralReturn
    \/ MainRunAnalysis
    \/ SelectBlogRows
    \/ SelectOralHistoryRows
    \/ BeginRow
    \/ AnalyzeSentiment(Scoring("sentiment"))
    \/ AnalyzeEmotion(Scoring("emotion"))
    \/ AnalyzeLinguistic(Scoring("linguistic"))
    \/ EndBlogRows
    \/ EndOralHistoryRows

SpecPipeline == InitPipeline /\ [][NextPipeline]_vars

(***************************************************************************)
(* SpecCheckpoint: _save_checkpoint and _load_checkpoint called by a       *)
(* scraper process that ends, or is killed at any point, and is restarted, *)
(* for every cursor and every set of visited URLs.                         *)
(***************************************************************************)
Cursors == 0..MaxPages
PostUrls == {PostUrl(n) : n \in PostNumbers}

\* the tail of the page loop of run, for any cursor and visited set:
\* checkpoint["scraped_post_urls"] = list(scraped_urls), and the open of
\* _save_checkpoint
CheckpointSave(cursor, visited) ==
    /\ blog_pc \in {"idle", "loaded", "saved"}
    /\ scraped_urls' = visited
    /\ \E order \in list(visited) :
          checkpoint' = [last_listing_page |-> cursor,
                         scraped_post_urls |-> order]
    /\ checkpoint_file' = open_w(checkpoint_file)
    /\ blog_pc' = "saving"
    /\ UNCHANGED <<tables, notBlog, html_cache, max_pages, page_num,
                   post_metas, meta_index, blog_runs, last_saved>>

\* _save_checkpoint: json.dump has flushed a part of the text
CheckpointDumpPart ==
    /\ blog_pc = "saving"
    /\ checkpoint_file.bytes = "none"
    /\ checkpoint_file' = write_part(checkpoint_file)
    /\ UNCHANGED <<tables, notBlog, html_cache, blog_pc, checkpoint,
                   scraped_urls, max_pages, page_num, post_metas, meta_index,
                   blog_runs, last_saved>>

\* _save_checkpoint: json.dump is through and the file is closed
CheckpointDump ==
    /\ blog_pc = "saving"
    /\ checkpoint_file' = json_dump(checkpoint)
    /\ last_saved' = [saved |-> TRUE, cursor |-> checkpoint.last_listing_page,
                      visited |-> scraped_urls]
    /\ blog_pc' = "saved"
    /\ UNCHANGED <<tables, notBlog, html_cache, checkpoint, scraped_urls,
                   max_pages, page_num, post_metas, meta_index, blog_runs>>

\* the process ends, or is killed, and a new one starts: the file stays as
\* it is, the memory is new
ProcessRestart ==
    /\ blog_pc \in {"saving", "saved", "loaded", "raised"}
    /\ blog_pc' = "idle"
    /\ checkpoint' = EmptyCheckpoint
    /\ scraped_urls' = {}
    /\ UNCHANGED <<tables, notBlog, checkpoint_file, html_cache, max_pages,
                   page_num, post_metas, meta_index, blog_runs, last_saved>>

\* the head of run: checkpoint = self._load_checkpoint();
\* scraped_urls = set(checkpoint.get("scraped_post_urls", []))
CheckpointLoad ==
    /\ blog_pc = "idle"
    /\ IF LoadRaises(checkpoint_file)
       THEN /\ blog_pc' = "raised"
            /\ UNCHANGED <<checkpoint, scraped_urls>>
       ELSE /\ checkpoint' = load_checkpoint(checkpoint_file)
            /\ scraped_urls' = set(checkpoint'.scraped_post_urls)
            /\ blog_pc' = "loaded"
    /\ UNCHANGED <<tables, notBlog, checkpoint_file, html_cache, max_pages,
                   page_num, post_metas, meta_index, blog_runs, last_saved>>

InitCheckpoint == InitStore

NextCheckpoint ==
    \/ \E cursor \in Cursors, visited \in SUBSET PostUrls :
          CheckpointSave(cursor, visited)
    \/ CheckpointDumpPart
    \/ CheckpointDump
    \/ ProcessRestart
    \/ CheckpointLoad

SpecCheckpoint == InitCheckpoint /\ [][NextCheckpoint]_vars

(***************************************************************************)
(* Claims about the pipeline and the scrapers.                             *)
(***************************************************************************)
\* the first run of the pipeline is over
FirstRunOver ==
    \/ invocation > 1
    \/ invocation = 1 /\ ar_pc = "idle" /\ ar_status = "complete"

BlogUrlsUnique ==
    \A x, y \in blog_posts : x.url = y.url => x = y
SegmentKeysUnique ==
    \A x, y \in oral_histories :
        (x.astronaut_name = y.astronaut_name
           /\ x.segment_index = y.segment_index) => x = y

\* C4: once the first run of the full pipeline (blog scrape, oral-history
\* scrape, analysis) is over, no step of a second run over the same source
\* set changes any table, and blog_posts keeps one row per url,
\* oral_histories one row per (astronaut_name, segment_index) and each
\* results table one row per uniqueness key.
C4_SecondRunStoresNothing ==
    [][FirstRunOver =>
          /\ tables' = tables
          /\ BlogUrlsUnique'
          /\ SegmentKeysUnique'
          /\ ResultKeysUnique']_vars

\* C4 witness: the second run is over, and every table holds rows
C4_Witness ==
    /\ invocation = 2
    /\ blog_runs = 2
    /\ oral_runs = 2
    /\ ar_pc = "idle"
    /\ ar_status = "complete"
    /\ blog_posts # {}
    /\ oral_histories # {}
    /\ sentiment_results # {}
    /\ emotion_results # {}
    /\ linguistic_features # {}

\* C8: a batch loop that has ended has reached every entity of its batch,
\* whatever failed for one of them: the blog run every page up to max_pages,
\* the oral-history run every transcript of the index, _analyze_rows every
\* selected row.
C8_FailureConfinedToEntity ==
    /\ (blog_pc \in {"returned", "raised"} /\ max_pages > 0)
          => page_num > max_pages
    /\ oral_pc \in {"returned", "raised"} => entry_index > Len(transcripts)
    /\ (ar_pc \in {"idle", "select"} /\ ar_status # "crashed")
          => row_index > Len(rows)

\* C9: ISSBlogScraper.run never leaves with an exception because a fetch
\* failed, the page-1 fetch of detect_max_pages included.
C9_BlogRunNeverRaises == blog_pc # "raised"

BlogSteps == {"detect", "listing", "post", "saving"}
OralSteps == {"index", "entry", "segment"}
ProcessAlive == blog_pc \in BlogSteps \/ oral_pc \in OralSteps
MaxPagesArgs == {<<>>} \cup {<<n>> : n \in 1..MaxPages}
\* never touched by a scraper
notCrawl == <<storeApiVars, analysisVars, clockVars, worldVars, callVars>>
oralState == <<pdf_cache, oral_pc, transcripts, entry_index, oral_runs,
               seg_index>>
notTables == <<sentiment_results, emotion_results, linguistic_features>>

\* the post the blog run is at
CurrentPost == post_metas[meta_index]
\* the cache key, the page and the answer of the fetch at the current place
\* of the blog run
CurrentKey ==
    CASE blog_pc = "detect" -> ListingKey(1)
      [] blog_pc = "listing" -> ListingKey(page_num)
      [] OTHER -> PostKey(CurrentPost)
CurrentBody ==
    CASE blog_pc = "detect" -> 1
      [] blog_pc = "listing" -> page_num
      [] OTHER -> CurrentPost.day
CurrentFetch ==
    CASE blog_pc = "detect" -> ListingFetch(1)
      [] blog_pc = "listing" -> ListingFetch(page_num)
      [] OTHER -> PostFetch(CurrentPost)
\* the blog run is at a place where it needs the body of CurrentKey
AtFetchSite ==
    \/ blog_pc = "detect"
    \/ blog_pc = "listing" /\ page_num <= max_pages
    \/ /\ blog_pc = "post"
       /\ meta_index <= Len(post_metas)
       /\ CurrentPost \notin scraped_urls

\* requests.get was called for `key`
Request(key) == [event |-> "fetch", key |-> key, tick |-> 1 - net.tick]
\* time.sleep(RATE_LIMIT_SECONDS) returned
Slept == [net EXCEPT !.event = "delay"]
\* the body is at hand: read from the cache, or fetched, cached and slept on
BodyReady == io = "slept" \/ (io = "none" /\ Cached(CurrentKey))

\* main() and the head of ISSBlogScraper.run: a new process loads the
\* checkpoint; json.load raising ends it
ScrapeStart(max_pages_arg) ==
    LET cp == load_checkpoint(checkpoint_file)
    IN  /\ ~ProcessAlive
        /\ blog_runs < MaxRuns
        /\ blog_runs' = blog_runs + 1
        /\ checkpoint' = cp
        /\ scraped_urls' = set(cp.scraped_post_urls)
        /\ post_metas' = <<>>
        /\ meta_index' = 1
        /\ page_num' = StartPage(cp)
        /\ max_pages' = IF max_pages_arg = <<>> THEN 0 ELSE max_pages_arg[1]
        /\ blog_pc' = IF LoadRaises(checkpoint_file) THEN "raised"
                      ELSE IF max_pages_arg = <<>> THEN "detect"
                      ELSE "listing"
        /\ oral_pc' = "idle"
        /\ transcripts' = <<>>
        /\ entry_index' = 1
        /\ seg_index' = 0
        /\ io' = "none"
        /\ net' = [net EXCEPT !.event = "none", !.key = <<>>]
        /\ UNCHANGED <<tables, notCrawl, checkpoint_file, html_cache,
                       last_saved, pdf_cache, oral_runs, crashes,
                   failed_pages, failed_posts>>

\* fetch_page for a key that is not cached: the response, or the exception
\* that detect_max_pages lets through, that the page loop logs or that the
\* post loop logs
BlogFetch ==
    /\ AtFetchSite
    /\ io = "none"
    /\ ~Cached(CurrentKey)
    /\ net' = Request(CurrentKey)
    /\ IF CurrentFetch = "ok"
       THEN /\ io' = "response"
            /\ UNCHANGED <<blog_pc, page_num, meta_index>>
       ELSE /\ io' = "none"
            /\ blog_pc' = IF blog_pc = "detect" THEN "raised" ELSE blog_pc
            /\ page_num' = IF blog_pc = "listing" THEN page_num + 1
                           ELSE page_num
            /\ meta_index' = IF blog_pc = "post" THEN meta_index + 1
                             ELSE meta_index
    /\ failed_pages' = IF CurrentFetch # "ok" /\ blog_pc = "listing"
                       THEN failed_pages \cup {page_num} ELSE failed_pages
    /\ failed_posts' = IF CurrentFetch # "ok" /\ blog_pc = "post"
                       THEN failed_posts \cup {CurrentPost} ELSE failed_posts
    /\ UNCHANGED <<tables, notCrawl, oralState, checkpoint_file, html_cache,
                   checkpoint, scraped_urls, max_pages, post_metas,
                   blog_runs, last_saved, crashes>>

\* the text of a cache file whose write_text was cut short by a kill: the
\* file exists and holds a strict prefix of the page
Truncated == 0
\* the html_dir after cache_file.write_text(body) for `key`
CacheWritten(key, body) ==
    {c \in html_cache : c.key # key} \cup {[key |-> key, body |-> body]}
\* the post links BeautifulSoup finds in a listing: none in a text cut
\* before the first article
ParseListing(body) == IF body = Truncated THEN <<>> ELSE ListingPosts(body)
\* the page count detect_max_pages reads from the pagination links
ParsePagination(body) == IF body = Truncated THEN 1 ELSE world.pagination
\* scrape_full_post from the parse on: no entry-content in a text cut
\* before it
ParseCached(body, url) ==
    IF body = Truncated THEN <<>> ELSE ParsePost(body, url)

\* _cache_html under way: write_text has created the file and written a
\* part of the text
BlogCacheWritePart ==
    /\ blog_pc \in BlogSteps
    /\ io = "response"
    /\ html_cache' = CacheWritten(CurrentKey, Truncated)
    /\ io' = "writing"
    /\ UNCHANGED <<tables, notCrawl, oralState, checkpoint_file, blog_pc,
                   checkpoint, scraped_urls, max_pages, page_num, post_metas,
                   meta_index, blog_runs, last_saved, net, crashes,
                   failed_pages, failed_posts>>

\* html = resp.text; self._cache_html(cache_key, html)
BlogCacheWrite ==
    /\ blog_pc \in BlogSteps
    /\ io \in {"response", "writing"}
    /\ html_cache' = CacheWritten(CurrentKey, CurrentBody)
    /\ io' = "written"
    /\ UNCHANGED <<tables, notCrawl, oralState, checkpoint_file, blog_pc,
                   checkpoint, scraped_urls, max_pages, page_num, post_metas,
                   meta_index, blog_runs, last_saved, net, crashes,
                   failed_pages, failed_posts>>

\* time.sleep(RATE_LIMIT_SECONDS) after the cache write
BlogSleep ==
    /\ blog_pc \in BlogSteps
    /\ io = "written"
    /\ io' = "slept"
    /\ net' = Slept
    /\ UNCHANGED <<tables, notCrawl, oralState, blogVars, crashes,
                   failed_pages, failed_posts>>

\* detect_max_pages, from the parse on
DetectMaxPages ==
    /\ blog_pc = "detect"
    /\ BodyReady
    /\ max_pages' = ParsePagination(CachedBody(CurrentKey))
    /\ blog_pc' = "listing"
    /\ io' = "none"
    /\ UNCHANGED <<tables, notCrawl, oralState, checkpoint_file, html_cache,
                   checkpoint, scraped_urls, page_num, post_metas, meta_index,
                   blog_runs, last_saved, net, crashes,
                   failed_pages, failed_posts>>

\* scrape_listing_page, from the parse on
ListingParsed ==
    /\ blog_pc = "listing"
    /\ page_num <= max_pages
    /\ BodyReady
    /\ post_metas' = ParseListing(CachedBody(CurrentKey))
    /\ meta_index' = 1
    /\ blog_pc' = "post"
    /\ io' = "none"
    /\ UNCHANGED <<tables, notCrawl, oralState, checkpoint_file, html_cache,
                   checkpoint, scraped_urls, max_pages, page_num, blog_runs,
                   last_saved, net, crashes,
                   failed_pages, failed_posts>>

\* the post loop: "if url in scraped_urls: continue"
PostSkipped ==
    /\ blog_pc = "post"
    /\ meta_index <= Len(post_metas)
    /\ CurrentPost \in scraped_urls
    /\ meta_index' = meta_index + 1
    /\ UNCHANGED <<tables, notCrawl, oralState, checkpoint_file, html_cache,
                   blog_pc, checkpoint, scraped_urls, max_pages, page_num,
                   post_metas, blog_runs, last_saved, crawlVars>>

\* scrape_full_post from the parse on, insert_blog_post, scraped_urls.add
PostParsed ==
    /\ blog_pc = "post"
    /\ meta_index <= Len(post_metas)
    /\ CurrentPost \notin scraped_urls
    /\ BodyReady
    /\ LET post == ParseCached(CachedBody(CurrentKey), CurrentPost)
       IN  IF post # <<>>
           THEN /\ blog_posts' = InsertBlogPostStmt(blog_posts, post[1]).table
                /\ scraped_urls' = scraped_urls \cup {CurrentPost}
           ELSE UNCHANGED <<blog_posts, scraped_urls>>
    /\ meta_index' = meta_index + 1
    /\ io' = "none"
    /\ UNCHANGED <<oral_histories, notTables, notCrawl, oralState,
                   checkpoint_file, html_cache, blog_pc, checkpoint,
                   max_pages, page_num, post_metas, blog_runs, last_saved,
                   net, seg_index, crashes,
                   failed_pages, failed_posts>>

\* the tail of the page loop, up to the open of _save_checkpoint
SaveOpen ==
    /\ blog_pc = "post"
    /\ meta_index > Len(post_metas)
    /\ \E order \in list(scraped_urls) :
          checkpoint' = [last_listing_page |-> page_num,
                         scraped_post_urls |-> order]
    /\ checkpoint_file' = open_w(checkpoint_file)
    /\ blog_pc' = "saving"
    /\ UNCHANGED <<tables, notCrawl, oralState, html_cache, scraped_urls,
                   max_pages, page_num, post_metas, meta_index, blog_runs,
                   last_saved, crawlVars>>

\* _save_checkpoint: json.dump is through; on to the next page
SaveDump ==
    /\ blog_pc = "saving"
    /\ checkpoint_file' = json_dump(checkpoint)
    /\ last_saved' = [saved |-> TRUE, cursor |-> checkpoint.last_listing_page,
                      visited |-> scraped_urls]
    /\ page_num' = page_num + 1
    /\ post_metas' = <<>>
    /\ meta_index' = 1
    /\ blog_pc' = "listing"
    /\ UNCHANGED <<tables, notCrawl, oralState, html_cache, checkpoint,
                   scraped_urls, max_pages, blog_runs, crawlVars>>

\* the page loop is through: ISSBlogScraper.run returns and main() goes on
\* to OralHistoryScraper.run
BlogRunReturns ==
    /\ blog_pc = "listing"
    /\ page_num > max_pages
    /\ blog_pc' = "returned"
    /\ checkpoint' = EmptyCheckpoint
    /\ scraped_urls' = {}
    /\ oral_pc' = "index"
    /\ net' = [net EXCEPT !.event = "none", !.key = <<>>]
    /\ UNCHANGED <<tables, notCrawl, checkpoint_file, html_cache, max_pages,
                   page_num, post_metas, meta_index, blog_runs, last_saved,
                   pdf_cache, transcripts, entry_index, oral_runs, io,
                   seg_index, crashes,
                   failed_pages, failed_posts>>

\* the transcript the oral-history run is at
CurrentEntry == transcripts[entry_index]
AtEntry == oral_pc = "entry" /\ entry_index <= Len(transcripts)
\* run: "if not pdf_url: continue" and "if existing > 0: continue"
EntrySkips ==
    CurrentEntry.pdf_url = NoPdfUrl \/ HasSegments(CurrentEntry.name)

\* a PDF file whose write_bytes was cut short by a kill after more than
\* 1000 bytes: download_pdf takes it for a cached file
TornPdf(pdf_url) == <<"torn", pdf_url[2]>>
PdfTorn(pdf_url) == TornPdf(pdf_url) \in pdf_cache
\* dest.exists() and dest.stat().st_size > 1000
PdfOnDisk(pdf_url) == PdfCached(pdf_url) \/ PdfTorn(pdf_url)

\* OralHistoryScraper.run: fetch_transcript_index, a request with no cache
\* and no sleep
IndexFetched ==
    /\ oral_pc = "index"
    /\ net' = Request(<<"index">>)
    /\ transcripts' = fetch_transcript_index
    /\ entry_index' = 1
    /\ oral_pc' = "entry"
    /\ oral_runs' = oral_runs + 1
    /\ UNCHANGED <<tables, notCrawl, blogVars, pdf_cache, io, seg_index,
                   crashes,
                   failed_pages, failed_posts>>

\* the transcript loop: an entry without pdf_url, or of an astronaut who
\* has segments in the store
EntrySkipped ==
    /\ AtEntry
    /\ io = "none"
    /\ EntrySkips
    /\ entry_index' = entry_index + 1
    /\ UNCHANGED <<tables, notCrawl, blogVars, pdf_cache, oral_pc,
                   transcripts, oral_runs, crawlVars>>

\* download_pdf of a file that is not cached: fetch_url answers, or raises
\* and download_pdf returns None
PdfFetch ==
    /\ AtEntry
    /\ io = "none"
    /\ ~EntrySkips
    /\ ~PdfOnDisk(CurrentEntry.pdf_url)
    /\ net' = Request(CurrentEntry.pdf_url)
    /\ IF PdfKind(CurrentEntry.pdf_url) # "download_fail"
       THEN io' = "response" /\ UNCHANGED entry_index
       ELSE io' = "none" /\ entry_index' = entry_index + 1
    /\ UNCHANGED <<tables, notCrawl, blogVars, pdf_cache, oral_pc,
                   transcripts, oral_runs, seg_index, crashes,
                   failed_pages, failed_posts>>

\* dest.write_bytes(resp.content) under way, more than 1000 bytes written
PdfWritePart ==
    /\ AtEntry
    /\ io = "response"
    /\ PdfKind(CurrentEntry.pdf_url) # "stub"
    /\ pdf_cache' = pdf_cache \cup {TornPdf(CurrentEntry.pdf_url)}
    /\ io' = "writing"
    /\ UNCHANGED <<tables, notCrawl, blogVars, oral_pc, transcripts,
                   entry_index, oral_runs, seg_index, net, crashes,
                   failed_pages, failed_posts>>

\* dest.write_bytes(resp.content)
PdfWrite ==
    /\ AtEntry
    /\ io \in {"response", "writing"}
    /\ pdf_cache' = (pdf_cache \ {TornPdf(CurrentEntry.pdf_url)})
                       \cup {CurrentEntry.pdf_url}
    /\ io' = "written"
    /\ UNCHANGED <<tables, notCrawl, blogVars, oral_pc, transcripts,
                   entry_index, oral_runs, seg_index, net, crashes,
                   failed_pages, failed_posts>>

\* time.sleep(RATE_LIMIT_SECONDS) of download_pdf
PdfSleep ==
    /\ AtEntry
    /\ io = "written"
    /\ io' = "slept"
    /\ net' = Slept
    /\ UNCHANGED <<tables, notCrawl, blogVars, oralVars, seg_index, crashes,
                   failed_pages, failed_posts>>

\* process_transcript of a file cut short: pymupdf.open raises
TornTranscriptRead ==
    /\ AtEntry
    /\ ~EntrySkips
    /\ io = "none"
    /\ PdfTorn(CurrentEntry.pdf_url)
    /\ oral_pc' = "raised"
    /\ UNCHANGED <<tables, notCrawl, blogVars, pdf_cache, transcripts,
                   entry_index, oral_runs, crawlVars>>

\* process_transcript up to the insert loop: extract_text raises on a file
\* pymupdf cannot read, a short text or a text without turns returns 0
TranscriptRead ==
    /\ AtEntry
    /\ ~EntrySkips
    /\ io = "slept" \/ (io = "none" /\ PdfCached(CurrentEntry.pdf_url))
    /\ io' = "none"
    /\ seg_index' = 0
    /\ IF PdfKind(CurrentEntry.pdf_url) = "corrupt"
       THEN oral_pc' = "raised" /\ UNCHANGED entry_index
       ELSE IF Segments(CurrentEntry.pdf_url) = <<>>
       THEN entry_index' = entry_index + 1 /\ UNCHANGED oral_pc
       ELSE oral_pc' = "segment" /\ UNCHANGED entry_index
    /\ UNCHANGED <<tables, notCrawl, blogVars, pdf_cache, transcripts,
                   oral_runs, net, crashes,
                   failed_pages, failed_posts>>

\* the insert loop of process_transcript: insert_oral_history of one segment
SegmentInserted ==
    LET segments == Segments(CurrentEntry.pdf_url)
    IN  /\ oral_pc = "segment"
        /\ oral_histories' =
             InsertOralHistoryStmt(oral_histories,
                [id |-> 0, astronaut_name |-> CurrentEntry.name,
                 segment_index |-> seg_index,
                 speaker |-> segments[seg_index + 1].speaker,
                 word_count |-> segments[seg_index + 1].word_count]).table
        /\ IF seg_index + 1 < Len(segments)
           THEN /\ seg_index' = seg_index + 1
                /\ UNCHANGED <<oral_pc, entry_index>>
           ELSE /\ seg_index' = 0
                /\ oral_pc' = "entry"
                /\ entry_index' = entry_index + 1
        /\ UNCHANGED <<blog_posts, notTables, notCrawl, blogVars, pdf_cache,
                       transcripts, oral_runs, io, net, crashes,
                   failed_pages, failed_posts>>

\* the transcript loop is through: run returns and the process ends
OralRunReturns ==
    /\ oral_pc = "entry"
    /\ entry_index > Len(transcripts)
    /\ oral_pc' = "returned"
    /\ UNCHANGED <<tables, notCrawl, blogVars, pdf_cache, transcripts,
                   entry_index, oral_runs, crawlVars>>

\* the process is killed: the files and the committed rows stay, what the
\* process held in memory is gone
Kill ==
    /\ ProcessAlive
    /\ crashes' = crashes + 1
    /\ blog_pc' = IF blog_pc \in BlogSteps THEN "crashed" ELSE blog_pc
    /\ oral_pc' = IF oral_pc \in OralSteps THEN "crashed" ELSE oral_pc
    /\ checkpoint' = EmptyCheckpoint
    /\ scraped_urls' = {}
    /\ post_metas' = <<>>
    /\ meta_index' = 1
    /\ page_num' = 0
    /\ max_pages' = 0
    /\ transcripts' = <<>>
    /\ entry_index' = 1
    /\ seg_index' = 0
    /\ io' = "none"
    /\ net' = [net EXCEPT !.event = "none", !.key = <<>>]
    /\ UNCHANGED <<tables, notCrawl, checkpoint_file, html_cache, blog_runs,
                   last_saved, pdf_cache, oral_runs, failed_pages, failed_posts>>

CrawlWorlds == {w \in Worlds : w.max_pages = <<>> /\ w.scoring_fails = {}}

InitCrawl ==
    /\ blog_posts = {}
    /\ oral_histories = {}
    /\ sentiment_results = {}
    /\ emotion_results = {}
    /\ linguistic_features = {}
    /\ txn = NoTxn
    /\ call_result = NoCall
    /\ calls = 0
    /\ now = 1
    /\ AnalysisIdle
    /\ world \in CrawlWorlds
    /\ expeditions = {}
    /\ ScrapersIdle
    /\ CallsIdle

NextCrawl ==
    \/ \E max_pages_arg \in MaxPagesArgs : ScrapeStart(max_pages_arg)
    \/ BlogFetch
    \/ BlogCacheWritePart
    \/ BlogCacheWrite
    \/ BlogSleep
    \/ DetectMaxPages
    \/ ListingParsed
    \/ PostSkipped
    \/ PostParsed
    \/ SaveOpen
    \/ SaveDump
    \/ BlogRunReturns
    \/ IndexFetched
    \/ EntrySkipped
    \/ PdfFetch
    \/ PdfWritePart
    \/ PdfWrite
    \/ PdfSleep
    \/ TornTranscriptRead
    \/ TranscriptRead
    \/ SegmentInserted
    \/ OralRunReturns
    \/ Kill

SpecCrawl == InitCrawl /\ [][NextCrawl]_vars

\* C11: a load never fails and never returns an empty, truncated or mixed
\* record, wherever the process was killed during _save_checkpoint: it
\* returns the checkpoint of the latest save that wrote its whole text (the
\* previous or the new one), or the defaults when there never was a file.
C11_SaveIsAtomic ==
    /\ blog_pc # "raised"
    /\ blog_pc = "loaded" =>
          /\ checkpoint.last_listing_page = last_saved.cursor
          /\ set(checkpoint.scraped_post_urls) = last_saved.visited

\* the checkpoint file holds the whole text of a JSON document
Complete(file) == file.exists /\ file.bytes = "all"

\* C12: across runs with any max_pages arguments, any fetch failures and
\* kills anywhere, the last_listing_page stored in the checkpoint file never
\* decreases: whatever a step stores is at least the cursor of the latest
\* save before it.
C12_CursorNeverDecreases ==
    [][/\ last_saved'.cursor >= last_saved.cursor
       /\ Complete(checkpoint_file') =>
             checkpoint_file'.last_listing_page >= last_saved.cursor]_vars
\* a run restarted after a kill works on the last page with page 1 stored
C12_Witness ==
    /\ blog_runs = MaxRuns
    /\ crashes >= 1
    /\ Complete(checkpoint_file)
    /\ checkpoint_file.last_listing_page = MaxPages - 1
    /\ blog_pc = "saving" \/ blog_pc = "post"
    /\ page_num = MaxPages

\* the step is a kill of the process inside the work on listing page
\* page_num: after its listing was parsed and before its save was through
KilledMidPage == crashes' # crashes /\ blog_pc \in {"post", "saving"}

\* C13: a kill in the middle of page p leaves a checkpoint from which the
\* next run resumes at saved cursor + 1 = p, with the listing of page p in
\* the cache, and no run parses a listing page at or below the saved cursor.
C13_ResumeAtCrashedPage ==
    [][/\ KilledMidPage =>
             /\ ~LoadRaises(checkpoint_file')
             /\ StartPage(load_checkpoint(checkpoint_file')) = page_num
             /\ \E c \in html_cache' : c.key = ListingKey(page_num)
       /\ (blog_pc = "listing" /\ blog_pc' = "post") =>
             page_num > last_saved.cursor]_vars

\* the response of the live fetch under way has arrived
AfterResponse == io \in {"response", "writing", "written", "slept"}
\* the rate-limit delay or the parse comes next
AfterCacheWrite == io \in {"written", "slept"}

\* C14: the body of a live fetch is in the cache under its key before the
\* delay and the parse, and a kill at any point after the response leaves
\* that body in the cache, where the next run finds it (for a PDF: a file
\* that download_pdf accepts as cached).
C14_CrashKeepsBody ==
    [][/\ (blog_pc \in BlogSteps /\ AfterCacheWrite) =>
             [key |-> CurrentKey, body |-> CurrentBody] \in html_cache
       /\ (oral_pc = "entry" /\ AfterCacheWrite) =>
             CurrentEntry.pdf_url \in pdf_cache
       /\ (crashes' # crashes /\ AfterResponse /\ blog_pc \in BlogSteps) =>
             [key |-> CurrentKey, body |-> CurrentBody] \in html_cache'
       /\ (crashes' # crashes /\ AfterResponse /\ oral_pc = "entry") =>
             /\ CurrentEntry.pdf_url \in pdf_cache'
             /\ PdfKind(CurrentEntry.pdf_url) # "stub"]_vars

\* the step issues a network request
LiveFetch == net'.tick # net.tick
\* the step takes the body of the current blog key from the cache
CacheHit ==
    /\ crashes' = crashes
    /\ AtFetchSite
    /\ io = "none"
    /\ Cached(CurrentKey)

\* C15: within a scraper run a delay separates every live fetch from the
\* one before it, whether that one succeeded or failed, and a cache hit
\* issues no request and no delay.
C15_DelayBetweenFetches ==
    [][/\ LiveFetch => net.event # "fetch"
       /\ CacheHit => net' = net]_vars

\* the (astronaut_name, segment_index) pairs an uninterrupted oral-history
\* run that returns stores over the source set
ExpectedSegments ==
    UNION {{<<fetch_transcript_index[n].name, i - 1>> :
               i \in DOMAIN Segments(fetch_transcript_index[n].pdf_url)} :
           n \in {m \in DOMAIN fetch_transcript_index :
                     fetch_transcript_index[m].pdf_url # NoPdfUrl}}
\* the posts an uninterrupted blog run over pages 1..last stores whatever
\* the page order: linked from a listing that answers, with a page of their
\* own that answers and parses
ExpectedPosts(last) ==
    {url \in UNION {set(ListingPosts(p)) :
                      p \in {q \in 1..last : ListingFetch(q) = "ok"}} :
        /\ url.day = url.slug
        /\ PostFetch(url) = "ok"
        /\ ParsePost(url.day, url) # <<>>}

\* C17: after one kill anywhere in a scraper run and a restart that runs
\* to the end, the store holds what an uninterrupted run stores: every
\* expected post, exactly the expected transcript segments, and no URL or
\* segment twice.
C17_CrashEquivalence ==
    (crashes = 1 /\ oral_pc = "returned") =>
        /\ BlogUrlsUnique
        /\ SegmentKeysUnique
        /\ {<<r.astronaut_name, r.segment_index>> : r \in oral_histories}
              = ExpectedSegments
        /\ ExpectedPosts(max_pages) \subseteq {r.url : r \in blog_posts}

(***************************************************************************)
(* SpecFetch: fetch_page and fetch_url under their tenacity decorator,     *)
(* attempt by attempt. requests.get is given a timeout, so an attempt      *)
(* ends, and so does the sleep between two attempts: the steps of a call   *)
(* are weakly fair in SpecFetchLive.                                       *)
(***************************************************************************)
\* number of fetch_page / fetch_url calls of one behaviour
MaxFetchCalls == 2
\* tenacity arguments, iss_blog_scraper.py:37-38 and
\* oral_history_scraper.py:56-57
STOP_AFTER_ATTEMPT == 3
WAIT_MULTIPLIER == 1
WAIT_MIN == 2
WAIT_MAX == 30
FetchFunctions == {"fetch_page", "fetch_url"}
\* how one requests.get followed by raise_for_status ends: a response, an
\* HTTP error status, requests.ConnectionError, requests.Timeout, or
\* another exception of requests
GetOutcomes == {"ok", "http_error", "connection_error", "timeout", "other_error"}
notFetch == <<tables, storeApiVars, analysisVars, clockVars, worldVars,
              blogVars, oralVars, crawlVars, chunkVars, scoreVars, splitVars,
              postVars, mapVars>>

RECURSIVE Pow2(_)
Pow2(n) == IF n <= 0 THEN 1 ELSE 2 * Pow2(n - 1)
ClampWait(seconds) ==
    IF seconds < WAIT_MIN THEN WAIT_MIN
    ELSE IF seconds > WAIT_MAX THEN WAIT_MAX ELSE seconds
\* wait_exponential(multiplier=1, min=2, max=30) after attempt number n
wait_exponential(n) == ClampWait(WAIT_MULTIPLIER * Pow2(n - 1))
\* stop_after_attempt(3)
stop_after_attempt(n) == n >= STOP_AFTER_ATTEMPT
\* a decorator that retries on every exception
RetryAnyException(outcome) == outcome # "ok"
\* retry_if_exception_type((requests.ConnectionError, requests.Timeout))
retry_if_exception_type(outcome) ==
    outcome \in {"connection_error", "timeout"}
\* the exception the call raises when it ends on `outcome`
Raised(outcome) ==
    IF retry_if_exception_type(outcome) THEN "RetryError"
    ELSE IF outcome = "http_error" THEN "HTTPError"
    ELSE "RequestException"

\* a caller calls fetch_page(url) or fetch_url(url)
FetchCall(fn) ==
    /\ fetch_pc \in {"idle", "returned", "raised"}
    /\ fetch_calls < MaxFetchCalls
    /\ fetch_calls' = fetch_calls + 1
    /\ fetch_fn' = fn
    /\ attempts' = <<>>
    /\ waits' = <<>>
    /\ fetch_result' = "none"
    /\ fetch_pc' = "attempt"
    /\ UNCHANGED notFetch

\* one attempt: requests.get and raise_for_status, then the decision of
\* the decorator
FetchAttempt(outcome) ==
    /\ fetch_pc = "attempt"
    /\ attempts' = Append(attempts, outcome)
    /\ IF outcome = "ok"
       THEN fetch_pc' = "returned" /\ fetch_result' = "response"
       ELSE IF /\ retry_if_exception_type(outcome)
               /\ ~stop_after_attempt(Len(attempts'))
       THEN fetch_pc' = "wait" /\ UNCHANGED fetch_result
       ELSE fetch_pc' = "raised" /\ fetch_result' = Raised(outcome)
    /\ UNCHANGED <<notFetch, fetch_fn, waits, fetch_calls>>

\* the sleep of wait_exponential before the next attempt
FetchBackoff ==
    /\ fetch_pc = "wait"
    /\ waits' = Append(waits, wait_exponential(Len(attempts)))
    /\ fetch_pc' = "attempt"
    /\ UNCHANGED <<notFetch, fetch_fn, attempts, fetch_result, fetch_calls>>

InitFetch == InitStore

FetchStep ==
    \/ \E outcome \in GetOutcomes : FetchAttempt(outcome)
    \/ FetchBackoff

NextFetch ==
    \/ \E fn \in FetchFunctions : FetchCall(fn)
    \/ FetchStep

SpecFetch == InitFetch /\ [][NextFetch]_vars
SpecFetchLive == SpecFetch /\ WF_vars(FetchStep)

InFetchCall == fetch_pc \in {"attempt", "wait"}
Transient(outcome) == outcome \in {"connection_error", "timeout"}
\* at most three attempts, each but the first after a connection error or
\* a timeout; an HTTP error status ends the call at once; the third
\* transient failure ends it with RetryError
BoundedRetry ==
    /\ Len(attempts) <= 3
    /\ \A i \in 1..(Len(attempts) - 1) : Transient(attempts[i])
    /\ \A i \in 1..Len(attempts) :
          attempts[i] = "http_error" =>
             /\ i = Len(attempts)
             /\ fetch_pc = "raised"
             /\ fetch_result = "HTTPError"
    /\ (Len(attempts) = 3 /\ Transient(attempts[3])) =>
          /\ fetch_pc = "raised"
          /\ fetch_result = "RetryError"

\* C16: a call of fetch_page or fetch_url makes at most 3 attempts, a
\* further one only after a connection error or timeout; an HTTP error
\* status ends the call after that attempt, the third transient failure
\* makes it fail, and every call ends.
C16_BoundedRetry == []BoundedRetry /\ (InFetchCall ~> ~InFetchCall)
\* fetch_url gave up after three transient failures
C16_Witness ==
    /\ fetch_fn = "fetch_url"
    /\ fetch_calls = MaxFetchCalls
    /\ attempts = <<"connection_error", "timeout", "timeout">>
    /\ fetch_result = "RetryError"

(***************************************************************************)
(* SpecChunk: chunk_text of runner.py applied to a text of n_tokens token  *)
(* ids with the arguments max_tokens and overlap. A chunk is the range     *)
(* [start, end) of the token ids it decodes.                               *)
(***************************************************************************)
\* token ids of the text: 0..MaxTokens; max_tokens: 1..MaxWindow
MaxTokens == 9
MaxWindow == 4
notChunk == <<tables, storeApiVars, analysisVars, clockVars, worldVars,
              blogVars, oralVars, crawlVars, fetchVars, scoreVars, splitVars,
              postVars, mapVars>>

Min(a, b) == IF a < b THEN a ELSE b
\* a step that leaves one token between two windows
StepPastWindow(W, O) == W + 1
\* a step of a whole window
StepWholeWindow(W, O) == W
\* step = max_tokens - overlap
Step(W, O) == W - O
\* a loop without the break: it ends when range() is exhausted
RangeExhausted(start, end, N, W, O) == start + Step(W, O) >= N
\* the loop is left after this window: "if end == len(token_ids): break",
\* or range(0, len(token_ids), step) is exhausted
LoopEnds(start, end, N, W, O) == end = N \/ start + Step(W, O) >= N
\* the for loop from `start` on
RECURSIVE Windows(_, _, _, _)
Windows(start, N, W, O) ==
    LET end == Min(start + W, N)
        chunk == [start |-> start, end |-> end, source |-> "decoded"]
    IN  IF LoopEnds(start, end, N, W, O) THEN <<chunk>>
        ELSE <<chunk>> \o Windows(start + Step(W, O), N, W, O)
\* a test that sends a text of exactly max_tokens token ids into the loop
ShortTextStrict(N, W) == N < W
\* "if len(token_ids) <= max_tokens"
ShortText(N, W) == N <= W
\* chunk_text(text, tokenizer, max_tokens=W, overlap=O) for N token ids: a
\* chunk is the text object itself (source "text") or the string that
\* tokenizer.decode makes of token_ids[start:end] (source "decoded")
chunk_text(N, W, O) ==
    IF ShortText(N, W) THEN <<[start |-> 0, end |-> N, source |-> "text"]>>
    ELSE Windows(0, N, W, O)

ChunkText ==
    /\ chunk_pc = "called"
    /\ chunks' = chunk_text(n_tokens, max_tokens, overlap)
    /\ chunk_pc' = "returned"
    /\ UNCHANGED <<notChunk, n_tokens, max_tokens, overlap>>

InitChunk ==
    /\ blog_posts = {}
    /\ oral_histories = {}
    /\ sentiment_results = {}
    /\ emotion_results = {}
    /\ linguistic_features = {}
    /\ txn = NoTxn
    /\ call_result = NoCall
    /\ calls = 0
    /\ now = 1
    /\ world = QuietWorld
    /\ expeditions = {}
    /\ AnalysisIdle
    /\ ScrapersIdle
    /\ FetchIdle
    /\ ScoreIdle
    /\ SplitIdle
    /\ PostIdle
    /\ MapIdle
    /\ n_tokens \in 0..MaxTokens
    /\ max_tokens \in 1..MaxWindow
    /\ overlap \in 0..(max_tokens - 1)
    /\ chunks = <<>>
    /\ chunk_pc = "called"

NextChunk == ChunkText

SpecChunk == InitChunk /\ [][NextChunk]_vars

\* the token positions of a chunk
Positions(chunk) == chunk.start..(chunk.end - 1)
CeilDiv(a, b) == (a + b - 1) \div b

\* C18: the windows of chunk_text cover [0, N) with no gap, each holds at
\* most W tokens, and each is non-empty when N > W.
C18_ChunkCoverage ==
    chunk_pc = "returned" =>
        /\ UNION {Positions(chunks[i]) : i \in DOMAIN chunks}
              = 0..(n_tokens - 1)
        /\ \A i \in DOMAIN chunks :
              /\ chunks[i].end - chunks[i].start <= max_tokens
              /\ n_tokens > max_tokens => chunks[i].end > chunks[i].start
\* three windows with an overlap, the last one clipped to the end
C18_Witness ==
    /\ chunk_pc = "returned"
    /\ overlap > 0
    /\ Len(chunks) = 3
    /\ chunks[3].end - chunks[3].start < max_tokens

\* C21: a text of at most max_tokens token ids, the empty text and the text
\* of exactly max_tokens included, comes back as the one element of the
\* list, as the text object itself and not as a decoded copy.
C21_ShortTextUnchanged ==
    (chunk_pc = "returned" /\ n_tokens <= max_tokens) =>
        chunks = <<[start |-> 0, end |-> n_tokens, source |-> "text"]>>
\* a text of exactly max_tokens > 1 token ids was returned
C21_Witness ==
    /\ chunk_pc = "returned"
    /\ n_tokens = max_tokens
    /\ max_tokens > 1
    /\ Len(chunks) = 1
    /\ chunks[1].source = "text"

\* C19: for N > W chunk_text returns ceil((N - W) / (W - O)) + 1 windows.
C19_ChunkCount ==
    (chunk_pc = "returned" /\ n_tokens > max_tokens) =>
        Len(chunks) = CeilDiv(n_tokens - max_tokens, max_tokens - overlap) + 1
\* the last window ends at N on a step boundary and the loop breaks there
C19_Witness ==
    /\ chunk_pc = "returned"
    /\ n_tokens > max_tokens
    /\ Len(chunks) >= 3
    /\ chunks[Len(chunks)].end - chunks[Len(chunks)].start = max_tokens

\* C20: for N > W two adjacent windows share exactly O token positions,
\* the last window included when it is clipped to the end.
C20_AdjacentOverlap ==
    (chunk_pc = "returned" /\ n_tokens > max_tokens) =>
        \A i \in 1..(Len(chunks) - 1) :
            Cardinality(Positions(chunks[i]) \cap Positions(chunks[i + 1]))
               = overlap
\* a clipped last window that still shares O > 1 positions with the one
\* before it
C20_Witness ==
    /\ chunk_pc = "returned"
    /\ overlap >= 2
    /\ Len(chunks) >= 2
    /\ chunks[Len(chunks)].end - chunks[Len(chunks)].start < max_tokens
    /\ chunks[Len(chunks)].end = n_tokens

(***************************************************************************)
(* Scoring: analyze_text of sentiment.py and emotion.py, and the           *)
(* aggregation of per-chunk results in runner.py. A score is held as a     *)
(* whole number of units, 0 up to MaxLevel * ScoreUnit: ScoreUnit is       *)
(* divisible by every chunk count of the model, so the mean of the scores  *)
(* of a label is the exact quotient.                                       *)
(***************************************************************************)
\* oracle answers hold up to MaxItems items, a document up to MaxChunks
\* chunks, a score is one of 0..MaxLevel times ScoreUnit
MaxItems == 2
MaxChunks == 2
MaxLevel == 1
RECURSIVE Factorial(_)
Factorial(n) == IF n = 0 THEN 1 ELSE n * Factorial(n - 1)
ScoreUnit == Factorial(MaxChunks + 2)
ScoreValues == {k * ScoreUnit : k \in 0..MaxLevel}
ScoreKinds == {"sentiment", "emotion"}
\* the keys of `scores` in SentimentAnalyzer.analyze_text and of `scores`
\* in aggregate_sentiment, in insertion order
SENTIMENT_LABELS == <<"positive", "negative", "neutral">>
\* emotion.py EMOTION_LABELS, and `emotions` of aggregate_emotions
EMOTION_LABELS ==
    <<"anger", "disgust", "fear", "joy", "neutral", "sadness", "surprise">>
LabelOrder(kind) ==
    IF kind = "sentiment" THEN SENTIMENT_LABELS ELSE EMOTION_LABELS
Labels(kind) == set(LabelOrder(kind))
\* sentiment.py LABEL_MAP
LABEL_MAP ==
    [l \in {"negative", "neutral", "positive", "LABEL_0", "LABEL_1", "LABEL_2"}
       |-> CASE l = "LABEL_0" -> "negative"
             [] l = "LABEL_1" -> "neutral"
             [] l = "LABEL_2" -> "positive"
             [] OTHER -> l]
\* the label strings the scoring oracles answer with in the model
OracleLabels(kind) ==
    IF kind = "sentiment"
    THEN {"positive", "NEGATIVE", "LABEL_1", "label_2", "mixed"}
    ELSE {"anger", "Joy", "surprise", "love", "LABEL_0"}
\* str.lower() on those strings
Lower(label) ==
    CASE label = "NEGATIVE" -> "negative"
      [] label = "LABEL_0" -> "label_0"
      [] label = "LABEL_1" -> "label_1"
      [] label = "Joy" -> "joy"
      [] OTHER -> label
OracleItems(kind) == [label : OracleLabels(kind), score : ScoreValues]
RECURSIVE SeqsUpTo(_, _)
SeqsUpTo(S, n) ==
    IF n = 0 THEN {<<>>}
    ELSE LET shorter == SeqsUpTo(S, n - 1)
         IN  shorter \cup {Append(q, x) : q \in shorter, x \in S}
OracleAnswers(kind) == SeqsUpTo(OracleItems(kind), MaxItems)

\* the sentiment mapping with a fallback to a near label
MappedLabelNearest(kind, label) ==
    IF kind = "sentiment"
    THEN IF label \in DOMAIN LABEL_MAP THEN LABEL_MAP[label]
         ELSE IF Lower(label) \in Labels(kind) THEN Lower(label)
         ELSE "neutral"
    ELSE Lower(label)
\* LABEL_MAP.get(item["label"], item["label"].lower()) of sentiment.py,
\* item["label"].lower() of emotion.py
MappedLabel(kind, label) ==
    IF kind = "sentiment"
    THEN IF label \in DOMAIN LABEL_MAP THEN LABEL_MAP[label] ELSE Lower(label)
    ELSE Lower(label)

\* max(scores, key=scores.get) that keeps the last of several highest keys
RECURSIVE PyMaxLast(_, _, _)
PyMaxLast(order, scores, best) ==
    IF order = <<>> THEN best
    ELSE PyMaxLast(Tail(order), scores,
                   IF scores[Head(order)] >= scores[best]
                   THEN Head(order) ELSE best)
\* max(scores, key=scores.get): the keys in insertion order, the first one
\* kept unless a later one is strictly greater
RECURSIVE PyMax(_, _, _)
PyMax(order, scores, best) ==
    IF order = <<>> THEN best
    ELSE PyMax(Tail(order), scores,
               IF scores[Head(order)] > scores[best]
               THEN Head(order) ELSE best)
MaxKey(kind, scores) ==
    PyMax(Tail(LabelOrder(kind)), scores, Head(LabelOrder(kind)))

\* the loop "for item in results" of analyze_text over scores
RECURSIVE FillScores(_, _, _)
FillScores(kind, items, scores) ==
    IF items = <<>> THEN scores
    ELSE LET mapped == MappedLabel(kind, Head(items).label)
         IN  FillScores(kind, Tail(items),
                        IF mapped \in DOMAIN scores
                        THEN [scores EXCEPT ![mapped] = Head(items).score]
                        ELSE scores)
\* analyze_text: the label (dominant emotion) and the score fields of the
\* result
analyze_text(kind, items) ==
    LET scores == FillScores(kind, items, [l \in Labels(kind) |-> 0])
    IN  [label |-> MaxKey(kind, scores), scores |-> scores]

\* sum(r.<label>_score for r in results)
RECURSIVE SumScores(_, _)
SumScores(results, label) ==
    IF results = <<>> THEN 0
    ELSE Head(results).scores[label] + SumScores(Tail(results), label)
\* a mean that forgets to divide by the number of chunks
MeanUndivided(results, label) == SumScores(results, label)
\* "sum(...) / n" with n = len(results)
Mean(results, label) == SumScores(results, label) \div Len(results)
\* aggregate_sentiment, aggregate_emotions: the label (dominant emotion) and
\* the score fields of the result
aggregate(kind, results) ==
    LET means == [l \in Labels(kind) |-> Mean(results, l)]
    IN  [label |-> MaxKey(kind, means), scores |-> means]

\* the state before any scraper, analysis, fetch or chunking call
QuietStore ==
    /\ blog_posts = {}
    /\ oral_histories = {}
    /\ sentiment_results = {}
    /\ emotion_results = {}
    /\ linguistic_features = {}
    /\ txn = NoTxn
    /\ call_result = NoCall
    /\ calls = 0
    /\ now = 1
    /\ world = QuietWorld
    /\ expeditions = {}
    /\ AnalysisIdle
    /\ ScrapersIdle
    /\ FetchIdle
    /\ ChunkIdle

\* QuietStore, and no call of map_date_to_expedition either
QuietCalls == QuietStore /\ MapIdle

notScore == <<tables, storeApiVars, analysisVars, clockVars, worldVars,
              blogVars, oralVars, crawlVars, fetchVars, chunkVars, splitVars,
              postVars, mapVars>>

\* the fields a hand-built result gives a score other than 0, and the labels
\* it carries
VariedLabels(kind) ==
    IF kind = "sentiment" THEN Labels(kind) ELSE {"anger", "joy", "surprise"}
GivenLabels(kind) ==
    IF kind = "sentiment" THEN {"positive", "neutral"}
    ELSE {"anger", "neutral"}
\* the results a caller can build: SentimentResult and EmotionResult accept
\* any label of the set with any scores in [0, 1]
ValidResults(kind) ==
    {[label |-> l, scores |-> f] :
        l \in GivenLabels(kind),
        f \in {g \in [Labels(kind) -> ScoreValues] :
                 \A x \in Labels(kind) \ VariedLabels(kind) : g[x] = 0}}

\* a caller of aggregate_sentiment / aggregate_emotions adds one result to
\* the list it will pass
GivenResult ==
    /\ score_pc = "direct"
    /\ Len(chunk_results) < MaxChunks
    /\ \E r \in ValidResults(score_kind) :
          chunk_results' = Append(chunk_results, r)
    /\ UNCHANGED <<score_kind, oracle_items, score_result, score_pc>>
    /\ UNCHANGED notScore

\* the call aggregate_sentiment(results, ...) / aggregate_emotions(results, ...)
\* on a non-empty list
CallAggregate ==
    /\ score_pc = "direct"
    /\ Len(chunk_results) >= 1
    /\ score_result' = <<aggregate(score_kind, chunk_results)>>
    /\ score_pc' = "aggregated"
    /\ UNCHANGED <<score_kind, oracle_items, chunk_results>>
    /\ UNCHANGED notScore

\* _analyze_rows: one element of "[analyzer.analyze_text(c, ...) for c in
\* chunks]", the oracle answering for the chunk
RowChunk ==
    /\ score_pc = "row"
    /\ Len(chunk_results) < MaxChunks
    /\ \E items \in OracleAnswers(score_kind) :
          chunk_results' =
             Append(chunk_results, analyze_text(score_kind, items))
    /\ UNCHANGED <<score_kind, oracle_items, score_result, score_pc>>
    /\ UNCHANGED notScore

\* _analyze_rows: "if len(chunk_results) == 1: result = chunk_results[0]
\* else: result = aggregate_...(chunk_results, ...)", then the insert
StoreRowResult ==
    /\ score_pc = "row"
    /\ Len(chunk_results) >= 1
    /\ score_result' =
          <<IF Len(chunk_results) = 1 THEN chunk_results[1]
            ELSE aggregate(score_kind, chunk_results)>>
    /\ score_pc' = "stored"
    /\ UNCHANGED <<score_kind, oracle_items, chunk_results>>
    /\ UNCHANGED notScore

InitAggregate ==
    /\ QuietCalls
    /\ PostIdle
    /\ SplitIdle
    /\ score_kind \in ScoreKinds
    /\ oracle_items = <<>>
    /\ chunk_results = <<>>
    /\ score_result = <<>>
    /\ score_pc \in {"direct", "row"}

NextAggregate ==
    \/ GivenResult
    \/ CallAggregate
    \/ RowChunk
    \/ StoreRowResult

SpecAggregate == InitAggregate /\ [][NextAggregate]_vars

\* the label is a highest-scoring one and no label declared before it scores
\* as much
FirstHighest(kind, scores, label) ==
    LET order == LabelOrder(kind)
    IN  \E j \in DOMAIN order :
           /\ order[j] = label
           /\ \A i \in DOMAIN order :
                 /\ scores[order[i]] <= scores[label]
                 /\ i < j => scores[order[i]] < scores[label]
\* a result was computed by aggregating the list chunk_results
Aggregated ==
    \/ score_pc = "aggregated"
    \/ score_pc = "stored" /\ Len(chunk_results) > 1

\* C22: for every non-empty list of chunk results the aggregate holds, for
\* each label, the unweighted mean of the chunks' scores, and its label is a
\* label of highest mean, the first one in the declared order on a tie.
C22_UnweightedMean ==
    Aggregated =>
        LET out == score_result[1]
            n == Len(chunk_results)
        IN  /\ \A l \in Labels(score_kind) :
                  out.scores[l] * n
                     = SumScores(chunk_results, l)
            /\ FirstHighest(score_kind, out.scores, out.label)
\* two chunks whose means tie between two labels, the earlier one winning
C22_Witness ==
    /\ score_pc = "aggregated"
    /\ Len(chunk_results) = 2
    /\ score_kind = "emotion"
    /\ chunk_results[1].scores["joy"] = ScoreUnit
    /\ chunk_results[1].scores["surprise"] = 0
    /\ chunk_results[2].scores["joy"] = 0
    /\ chunk_results[2].scores["surprise"] = ScoreUnit
    /\ score_result[1].scores["joy"] = ScoreUnit \div 2
    /\ score_result[1].scores["surprise"] = ScoreUnit \div 2
    /\ score_result[1].scores["anger"] = 0
    /\ score_result[1].label = "joy"

\* C23 as stated: aggregating a one-element list returns the element's
\* label and scores unchanged, for every valid result.
C23_SinglePassthrough ==
    (score_pc = "aggregated" /\ Len(chunk_results) = 1) =>
        /\ score_result[1].scores = chunk_results[1].scores
        /\ score_result[1].label = chunk_results[1].label
\* C23: aggregating a one-element list returns the element's scores
\* unchanged and the first highest-scoring label of the declared order,
\* which is the element's label whenever that label is the first
\* highest-scoring one (as in every result of analyze_text); and a document
\* with exactly one chunk stores that chunk's own result.
C23_SingleRecomputed ==
    /\ (score_pc = "aggregated" /\ Len(chunk_results) = 1) =>
          /\ score_result[1].scores = chunk_results[1].scores
          /\ FirstHighest(score_kind, chunk_results[1].scores,
                          score_result[1].label)
          /\ FirstHighest(score_kind, chunk_results[1].scores,
                          chunk_results[1].label)
                => score_result[1] = chunk_results[1]
    /\ (score_pc = "stored" /\ Len(chunk_results) = 1) =>
          score_result[1] = chunk_results[1]
\* a single hand-built result labelled "neutral" with its highest score on
\* "surprise" comes back labelled "surprise"
C23_Witness ==
    /\ score_pc = "aggregated"
    /\ Len(chunk_results) = 1
    /\ score_kind = "emotion"
    /\ chunk_results[1].label = "neutral"
    /\ chunk_results[1].scores["surprise"] = ScoreUnit
    /\ chunk_results[1].scores["joy"] = 0
    /\ chunk_results[1].scores["anger"] = 0
    /\ score_result[1].label = "surprise"
    /\ score_result[1].scores = chunk_results[1].scores

\* the call analyzer.analyze_text(text, ...) on an answer of the oracle
AnalyzeText ==
    /\ score_pc = "called"
    /\ score_result' = <<analyze_text(score_kind, oracle_items)>>
    /\ score_pc' = "returned"
    /\ UNCHANGED <<score_kind, oracle_items, chunk_results>>
    /\ UNCHANGED notScore

InitLabel ==
    /\ QuietCalls
    /\ PostIdle
    /\ SplitIdle
    /\ score_kind \in ScoreKinds
    /\ oracle_items \in OracleAnswers(score_kind)
    /\ chunk_results = <<>>
    /\ score_result = <<>>
    /\ score_pc = "called"

NextLabel == AnalyzeText

SpecLabel == InitLabel /\ [][NextLabel]_vars

\* the field a label of the oracle is stored under, none when the label is
\* not recognised
FieldOf(kind, label) ==
    LET known ==
          IF kind = "sentiment"
          THEN [positive |-> "positive", LABEL_1 |-> "neutral",
                label_2 |-> "label_2", NEGATIVE |-> "negative",
                mixed |-> "mixed"]
          ELSE [anger |-> "anger", Joy |-> "joy", surprise |-> "surprise",
                love |-> "love", LABEL_0 |-> "label_0"]
    IN  IF known[label] \in Labels(kind) THEN <<known[label]>> ELSE <<>>
\* the items whose label is recognised
Recognised(kind, items) ==
    SelectSeq(items, LAMBDA item : FieldOf(kind, item.label) # <<>>)

\* C29: analyze_text drops an item whose label is outside the recognised
\* set without changing any score field, stores each recognised label's
\* score under its own field, and its dominant label is always one of the
\* fixed set.
C29_UnknownLabelsDropped ==
    score_pc = "returned" =>
        LET out == score_result[1]
            kept == Recognised(score_kind, oracle_items)
        IN  /\ out = analyze_text(score_kind, kept)
            /\ DOMAIN out.scores = Labels(score_kind)
            /\ \A l \in Labels(score_kind) :
                  LET at == {i \in DOMAIN oracle_items :
                               FieldOf(score_kind, oracle_items[i].label)
                                  = <<l>>}
                  IN  out.scores[l] =
                         IF at = {} THEN 0
                         ELSE oracle_items[CHOOSE i \in at :
                                             \A j \in at : j <= i].score
            /\ out.label \in Labels(score_kind)
            /\ FirstHighest(score_kind, out.scores, out.label)
\* an unrecognised label with a score next to a recognised one
C29_Witness ==
    /\ score_pc = "returned"
    /\ score_kind = "emotion"
    /\ oracle_items = <<[label |-> "love", score |-> ScoreUnit],
                        [label |-> "Joy", score |-> ScoreUnit]>>
    /\ score_result[1].label = "joy"
    /\ score_result[1].scores["joy"] = ScoreUnit
    /\ \A l \in Labels("emotion") \ {"joy"} : score_result[1].scores[l] = 0

(***************************************************************************)
(* split_segments of oral_history_scraper.py, on texts held as sequences   *)
(* of lines and lines as sequences of characters.                          *)
(***************************************************************************)
\* a text holds 1..MaxLines lines
MaxLines == 3
\* "if len(segment_text) > 20"
SKIP_LENGTH == 20
UpperLetters ==
    <<"A", "B", "C", "D", "E", "F", "G", "H", "I", "J", "K", "L", "M",
      "N", "O", "P", "Q", "R", "S", "T", "U", "V", "W", "X", "Y", "Z">>
LowerLetters ==
    <<"a", "b", "c", "d", "e", "f", "g", "h", "i", "j", "k", "l", "m",
      "n", "o", "p", "q", "r", "s", "t", "u", "v", "w", "x", "y", "z">>
\* the characters \s matches and str.strip() removes
IsSpace(c) == c \in {" ", "\t"}
\* [A-Z]
IsUpper(c) == c \in set(UpperLetters)
\* [A-Za-z\s.\-']
InNameClass(c) ==
    c \in set(UpperLetters) \cup set(LowerLetters) \cup {" ", "\t", ".", "-", "'"}
\* str.upper()
UpperChar(c) ==
    IF c \in set(LowerLetters)
    THEN UpperLetters[CHOOSE i \in DOMAIN LowerLetters : LowerLetters[i] = c]
    ELSE c
upper(str) == [i \in DOMAIN str |-> UpperChar(str[i])]
\* "needle in hay" on strings
In(needle, hay) ==
    \E i \in 0..(Len(hay) - Len(needle)) :
       SubSeq(hay, i + 1, i + Len(needle)) = needle
RECURSIVE lstrip(_)
lstrip(str) ==
    IF str # <<>> /\ IsSpace(Head(str)) THEN lstrip(Tail(str)) ELSE str
RECURSIVE rstrip(_)
rstrip(str) ==
    IF str # <<>> /\ IsSpace(str[Len(str)])
    THEN rstrip(SubSeq(str, 1, Len(str) - 1)) ELSE str
strip(str) == rstrip(lstrip(str))
\* re.sub(r"\s+", " ", str)
RECURSIVE CollapseSpaces(_)
CollapseSpaces(str) ==
    IF str = <<>> THEN <<>>
    ELSE IF IsSpace(Head(str)) THEN <<" ">> \o CollapseSpaces(lstrip(str))
    ELSE <<Head(str)>> \o CollapseSpaces(Tail(str))
\* " ".join(parts)
RECURSIVE Join(_)
Join(parts) ==
    IF parts = <<>> THEN <<>>
    ELSE IF Len(parts) = 1 THEN parts[1]
    ELSE parts[1] \o <<" ">> \o Join(Tail(parts))

\* re.match(pattern, line) with pattern ^([A-Z][A-Za-z\s.\-']+?):\s* :
\* no match, or group(1) and line[match.end():]. The name class holds no
\* colon, so the group ends at the first colon of the line.
Match(line) ==
    LET colons == {i \in DOMAIN line : line[i] = ":"}
    IN  IF colons = {} THEN <<>>
        ELSE LET k == CHOOSE i \in colons : \A j \in colons : i <= j
             IN  IF /\ k >= 3
                    /\ IsUpper(line[1])
                    /\ \A i \in 2..(k - 1) : InNameClass(line[i])
                 THEN <<[group |-> SubSeq(line, 1, k - 1),
                         remainder |-> lstrip(SubSeq(line, k + 1, Len(line)))]>>
                 ELSE <<>>

\* a test that also keeps a turn of exactly 20 characters
LongEnoughInclusive(segment_text) == Len(segment_text) >= SKIP_LENGTH
\* "if len(segment_text) > 20"
LongEnough(segment_text) == Len(segment_text) > SKIP_LENGTH
\* a test that compares the cases as written
IsInterviewerExact(last_name, current_speaker) == In(last_name, current_speaker)
\* "interviewer_last_name.upper() in current_speaker.upper()"
IsInterviewer(last_name, current_speaker) ==
    In(upper(last_name), upper(current_speaker))
\* a loop that starts with a speaker of its own
DefaultSpeaker == <<<<"A", "S", "T", "R", "O", "N", "A", "U", "T">>>>
\* "current_speaker = None"
NoSpeaker == <<>>

\* "Save previous segment" and "Don't forget the last segment": the list
\* with the turn of current_speaker appended, or the list as it was
SaveSegment(segs, current_speaker, current_text_parts, last_name) ==
    IF current_speaker # <<>> /\ current_text_parts # <<>>
    THEN LET segment_text ==
               CollapseSpaces(strip(Join(current_text_parts)))
         IN  IF LongEnough(segment_text)
             THEN Append(segs,
                    [speaker |-> IF IsInterviewer(last_name, current_speaker[1])
                                 THEN "interviewer" ELSE "astronaut",
                     text |-> segment_text])
             ELSE segs
    ELSE segs

\* a loop in which a marker of the speaker of the open turn goes on with
\* that turn
RECURSIVE SplitLoopMerging(_, _, _, _, _)
SplitLoopMerging(lines, current_speaker, current_text_parts, segs, last_name) ==
    IF lines = <<>>
    THEN SaveSegment(segs, current_speaker, current_text_parts, last_name)
    ELSE LET line == Head(lines)
             match == Match(line)
         IN  IF match # <<>> /\ current_speaker = <<strip(match[1].group)>>
             THEN SplitLoopMerging(Tail(lines), current_speaker,
                                   Append(current_text_parts,
                                          match[1].remainder),
                                   segs, last_name)
             ELSE IF match # <<>>
             THEN SplitLoopMerging(Tail(lines),
                                   <<strip(match[1].group)>>,
                                   IF strip(match[1].remainder) # <<>>
                                   THEN <<match[1].remainder>> ELSE <<>>,
                                   SaveSegment(segs, current_speaker,
                                               current_text_parts, last_name),
                                   last_name)
             ELSE SplitLoopMerging(Tail(lines), current_speaker,
                                   IF strip(line) # <<>>
                                   THEN Append(current_text_parts, strip(line))
                                   ELSE current_text_parts,
                                   segs, last_name)
\* "for line in text.split("\n")" and the block after the loop
RECURSIVE SplitLoop(_, _, _, _, _)
SplitLoop(lines, current_speaker, current_text_parts, segs, last_name) ==
    IF lines = <<>>
    THEN SaveSegment(segs, current_speaker, current_text_parts, last_name)
    ELSE LET line == Head(lines)
             match == Match(line)
         IN  IF match # <<>>
             THEN SplitLoop(Tail(lines),
                            <<strip(match[1].group)>>,
                            IF strip(match[1].remainder) # <<>>
                            THEN <<match[1].remainder>> ELSE <<>>,
                            SaveSegment(segs, current_speaker,
                                        current_text_parts, last_name),
                            last_name)
             ELSE SplitLoop(Tail(lines), current_speaker,
                            IF strip(line) # <<>>
                            THEN Append(current_text_parts, strip(line))
                            ELSE current_text_parts,
                            segs, last_name)
split_segments(lines, last_name) ==
    SplitLoop(lines, NoSpeaker, <<>>, <<>>, last_name)

RECURSIVE Rep(_, _)
Rep(c, n) == IF n = 0 THEN <<>> ELSE <<c>> \o Rep(c, n - 1)
\* the lines texts are made of: blank, turns of 21 and of exactly 20
\* characters, a continuation line, a name with every character of the
\* name class, names the pattern rejects, and a marker with nothing
\* after it
SampleLines ==
    { <<>>,
      <<"W", "R", "I", "G", "H", "T", ":", " ">> \o Rep("a", 10) \o <<" ", " ">> \o Rep("b", 10),
      <<"W", "h", "i", "t", "s", "o", "n", ":">> \o Rep("a", SKIP_LENGTH),
      <<"\t">> \o Rep("c", 5) \o <<" ">>,
      <<"M", "s", ".", " ", "W", "r", "i", "g", "h", "t", "s", "o", "n", "-", "O", "'", "N", "e", "i", "l", ":", "\t">> \o Rep("a", SKIP_LENGTH + 1),
      <<"Q", ":", " ">> \o Rep("a", SKIP_LENGTH + 1),
      <<"w", "h", "o", ":", " ">> \o Rep("a", SKIP_LENGTH + 1),
      <<"R", "2", ":", " ">> \o Rep("a", SKIP_LENGTH + 1),
      <<"W", "R", "I", "G", "H", "T", ":", " ">> }
SampleNames == {<<"W", "r", "i", "g", "h", "t">>, <<"R", "o", "s", "s">>}
NonEmptySeqsUpTo(S, n) == SeqsUpTo(S, n) \ {<<>>}

notSplit == <<tables, storeApiVars, analysisVars, clockVars, worldVars,
              blogVars, oralVars, crawlVars, fetchVars, chunkVars, scoreVars,
              postVars, mapVars>>

\* the call split_segments(text, interviewer_last_name)
SplitSegments ==
    /\ split_pc = "called"
    /\ split_result' = split_segments(text_lines, interviewer_last_name)
    /\ split_pc' = "returned"
    /\ UNCHANGED <<text_lines, interviewer_last_name>>
    /\ UNCHANGED notSplit

InitSplit ==
    /\ QuietCalls
    /\ PostIdle
    /\ ScoreIdle
    /\ text_lines \in NonEmptySeqsUpTo(SampleLines, MaxLines)
    /\ interviewer_last_name \in SampleNames
    /\ split_result = <<>>
    /\ split_pc = "called"

NextSplit == SplitSegments

SpecSplit == InitSplit /\ [][NextSplit]_vars

\* the lines that open a turn
Markers(lines) == {i \in DOMAIN lines : Match(lines[i]) # <<>>}
\* the characters of the turn opened at line m: what follows its marker,
\* and every line up to the next marker or the end of the text
RECURSIVE RawTurnFrom(_, _)
RawTurnFrom(lines, i) ==
    IF i > Len(lines) \/ i \in Markers(lines) THEN <<>>
    ELSE <<"\t">> \o lines[i] \o RawTurnFrom(lines, i + 1)
RawTurn(lines, m) == Match(lines[m])[1].remainder \o RawTurnFrom(lines, m + 1)
NonSpace(str) == SelectSeq(str, LAMBDA c : ~IsSpace(c))
\* the number of words of a string
Words(str) ==
    Cardinality({i \in DOMAIN str :
                   ~IsSpace(str[i]) /\ (i = 1 \/ IsSpace(str[i - 1]))})
\* the length of a string with every word kept and one space between words
NormalizedLen(str) ==
    Len(NonSpace(str)) + (IF Words(str) = 0 THEN 0 ELSE Words(str) - 1)
\* the markers whose turn is longer than 20 characters, in text order
RECURSIVE KeptFrom(_, _)
KeptFrom(lines, i) ==
    IF i > Len(lines) THEN <<>>
    ELSE (IF i \in Markers(lines)
             /\ NormalizedLen(RawTurn(lines, i)) > SKIP_LENGTH
          THEN <<i>> ELSE <<>>) \o KeptFrom(lines, i + 1)
SameLetter(a, b) ==
    \/ a = b
    \/ \E j \in DOMAIN UpperLetters :
          {a, b} = {UpperLetters[j], LowerLetters[j]}
\* name occurs in label, letters compared without their case
ContainsIgnoringCase(label, name) ==
    \E off \in 0..(Len(label) - Len(name)) :
       \A i \in DOMAIN name : SameLetter(label[off + i], name[i])

\* C24: every segment's speaker is "interviewer" if and only if the label of
\* its turn contains the interviewer surname, case ignored, and is
\* "astronaut" otherwise.
C24_SpeakerBySurname ==
    split_pc = "returned" =>
        LET kept == KeptFrom(text_lines, 1)
        IN  /\ Len(split_result) = Len(kept)
            /\ \A k \in DOMAIN split_result :
                  LET label == Match(text_lines[kept[k]])[1].group
                  IN  /\ split_result[k].speaker \in {"interviewer", "astronaut"}
                      /\ split_result[k].speaker = "interviewer"
                            <=> ContainsIgnoringCase(label,
                                                     interviewer_last_name)
\* surname "Wright": a turn of "WRIGHT" is the interviewer's, a turn of
\* "Whitson" the astronaut's
C24_Witness ==
    /\ split_pc = "returned"
    /\ Len(interviewer_last_name) = 6
    /\ Len(text_lines) = 3
    /\ Markers(text_lines) = {1, 2}
    /\ SubSeq(text_lines[1], 1, 2) = <<"W", "R">>
    /\ SubSeq(text_lines[2], 1, 2) = <<"W", "h">>
    /\ Len(split_result) = 2
    /\ split_result[1].speaker = "interviewer"
    /\ split_result[2].speaker = "astronaut"

\* C25: the segments are exactly the turns whose whitespace-normalized text
\* is longer than 20 characters, in order; each text keeps the turn's
\* words, has single spaces between them and none around them; a turn of
\* 20 characters or fewer gives no segment, whether a marker or the end of
\* the text closes it.
C25_LongNormalizedSegments ==
    split_pc = "returned" =>
        LET kept == KeptFrom(text_lines, 1)
        IN  /\ Len(split_result) = Len(kept)
            /\ \A k \in DOMAIN split_result :
                  LET segment_text == split_result[k].text
                      raw == RawTurn(text_lines, kept[k])
                  IN  /\ Len(segment_text) > SKIP_LENGTH
                      /\ Len(segment_text) = NormalizedLen(raw)
                      /\ NonSpace(segment_text) = NonSpace(raw)
                      /\ \A i \in DOMAIN segment_text :
                            IsSpace(segment_text[i]) =>
                               /\ segment_text[i] = " "
                               /\ 1 < i /\ i < Len(segment_text)
                               /\ ~IsSpace(segment_text[i + 1])
\* a turn of exactly 20 characters closed by a marker, a turn of 21 with a
\* double space, and a turn of exactly 20 closed by the end of the text
C25_Witness ==
    /\ split_pc = "returned"
    /\ Len(text_lines) = 3
    /\ Markers(text_lines) = {1, 2, 3}
    /\ NormalizedLen(RawTurn(text_lines, 1)) = SKIP_LENGTH
    /\ NormalizedLen(RawTurn(text_lines, 3)) = SKIP_LENGTH
    /\ Len(text_lines[2]) > SKIP_LENGTH
    /\ IsSpace(text_lines[2][19]) /\ IsSpace(text_lines[2][20])
    /\ Len(split_result) = 1
    /\ Len(split_result[1].text) = SKIP_LENGTH + 1
    /\ split_result[1].text[11] = " "

\* C26: a text none of whose lines matches the speaker-marker pattern, the
\* empty text included, gives the empty list.
C26_NoMarkerNoSegments ==
    (split_pc = "returned" /\ Markers(text_lines) = {}) =>
        split_result = <<>>
\* three lines with a colon that the pattern rejects, each long enough
C26_Witness ==
    /\ split_pc = "returned"
    /\ Len(text_lines) = 3
    /\ Markers(text_lines) = {}
    /\ \A i \in DOMAIN text_lines :
          /\ Len(text_lines[i]) > SKIP_LENGTH
          /\ \E j \in DOMAIN text_lines[i] : text_lines[i][j] = ":"
    /\ text_lines[1] # text_lines[2]
    /\ text_lines[2] # text_lines[3]
    /\ text_lines[1] # text_lines[3]
    /\ split_result = <<>>

(***************************************************************************)
(* insert_blog_post (SpecStore).                                           *)
(***************************************************************************)
\* the step is a call insert_blog_post(conn, post)
IsInsertBlogPost == calls' = calls + 1 /\ call_result'.op = "insert_blog_post"

\* C30: insert_blog_post of a post whose url is already stored returns -1,
\* raises nothing and leaves blog_posts unchanged; of a post with a new url
\* it returns a positive row id and adds exactly one row, the post's.
C30_UniqueUrl ==
    [][IsInsertBlogPost =>
          LET post == call_result'.arg
          IN  /\ call_result'.raised = "none"
              /\ IF \E r \in blog_posts : r.url = post.url
                 THEN /\ call_result'.ret = -1
                      /\ blog_posts' = blog_posts
                 ELSE /\ call_result'.ret > 0
                      /\ blog_posts' =
                            blog_posts \cup
                              {[post EXCEPT !.id = call_result'.ret]}
                      /\ Cardinality(blog_posts') = Cardinality(blog_posts) + 1
      ]_vars

(***************************************************************************)
(* scrape_full_post of iss_blog_scraper.py, from the cached page on. A     *)
(* page is held as what the selectors find in it, a text as its length     *)
(* and its number of words, a date as <<year, month, day>>.                *)
(***************************************************************************)
\* a content node holds up to MaxParagraphs <p> elements, a page is
\* extracted up to MaxInvocations times
MaxParagraphs == 2
MaxInvocations == 2
\* "len(text) < 50"
MIN_TEXT_LENGTH == 50

\* the datetime attributes of the model's <time> elements
TimeAttrs == {"2024-03-05T10:30:00Z", "2019-01-01", "March 5, 2024", ""}
\* str.replace("Z", "+00:00")
ReplaceZ(attr) ==
    IF attr = "2024-03-05T10:30:00Z" THEN "2024-03-05T10:30:00+00:00" ELSE attr
\* datetime.fromisoformat(...).date(): the date, or nothing on ValueError
fromisoformat(str) ==
    CASE str = "2024-03-05T10:30:00+00:00" -> <<<<2024, 3, 5>>>>
      [] str = "2019-01-01" -> <<<<2019, 1, 1>>>>
      [] OTHER -> <<>>
LeapYear(y) == (y % 4 = 0 /\ y % 100 # 0) \/ y % 400 = 0
DaysIn(y, m) ==
    IF m = 2 THEN (IF LeapYear(y) THEN 29 ELSE 28)
    ELSE IF m \in {4, 6, 9, 11} THEN 30 ELSE 31
\* datetime(y, m, d).date(): the date, or nothing on ValueError
datetime(ymd) ==
    IF /\ ymd[1] \in 1..9999
       /\ ymd[2] \in 1..12
       /\ ymd[3] \in 1..DaysIn(ymd[1], ymd[2])
    THEN <<ymd>> ELSE <<>>
\* start_date <= post_date <= end_date on dates
DateLE(a, b) ==
    \/ a[1] < b[1]
    \/ a[1] = b[1] /\ a[2] < b[2]
    \/ a[1] = b[1] /\ a[2] = b[2] /\ a[3] <= b[3]
\* self.expeditions, loaded from expeditions.json: two expeditions that
\* share the day of the crew handover
Expeditions ==
    {[number |-> 1, start_date |-> <<2023, 9, 27>>, end_date |-> <<2024, 3, 5>>],
     [number |-> 2, start_date |-> <<2024, 3, 5>>, end_date |-> <<2024, 9, 23>>]}
\* a mapping that prefers the earlier expedition and leaves out the day an
\* expedition ends
map_date_to_earliest(post_date, expedition_list) ==
    LET matches == {e \in expedition_list :
                      DateLE(e.start_date, post_date)
                         /\ DateLE(post_date, e.end_date)
                         /\ post_date # e.end_date}
    IN  IF matches = {} THEN <<>>
        ELSE <<CHOOSE n \in {e.number : e \in matches} :
                  \A e \in matches : n <= e.number>>
\* db.py map_date_to_expedition
map_date_to_expedition(post_date, expedition_list) ==
    LET matches == {e \in expedition_list :
                      DateLE(e.start_date, post_date)
                         /\ DateLE(post_date, e.end_date)}
    IN  IF matches = {} THEN <<>>
        ELSE <<MaxOf({e.number : e \in matches})>>

\* the urls of the model: no date in the path, /2024/03/06/, /2024/13/01/
PostUrlArgs ==
    {[path_date |-> <<>>, slug |-> "about"],
     [path_date |-> <<<<2024, 3, 6>>>>, slug |-> "spacewalk"],
     [path_date |-> <<<<2024, 13, 1>>>>, slug |-> "archive"]}
\* the texts of the <p> elements: blank, two lengths around the minimum, and
\* one inside a node the extraction removes (.sharedaddy, script, ...)
ParagraphTexts ==
    {[len |-> 0, words |-> 0, unwanted |-> FALSE],
     [len |-> (MIN_TEXT_LENGTH - 2) \div 2, words |-> 4, unwanted |-> FALSE],
     [len |-> MIN_TEXT_LENGTH - 1, words |-> 9, unwanted |-> FALSE],
     [len |-> MIN_TEXT_LENGTH, words |-> 8, unwanted |-> TRUE]}
\* content_el.get_text(separator="\n", strip=True) of a node without <p>
FlatTexts ==
    {[len |-> 0, words |-> 0],
     [len |-> MIN_TEXT_LENGTH - 1, words |-> 9],
     [len |-> MIN_TEXT_LENGTH, words |-> 10]}
Wanted(paragraphs) == SelectSeq(paragraphs, LAMBDA par : ~par.unwanted)
ContentNodes ==
    {[paragraphs |-> ps, flat |-> f] :
        ps \in SeqsUpTo(ParagraphTexts, MaxParagraphs), f \in FlatTexts}
\* the pages of the model: title and author present or not; no <time>, a
\* <time> without datetime, or one with an attribute; no content node or
\* one (the flat text is only looked at when no <p> is left)
Pages ==
    {[title_el |-> h[1], author_el |-> h[2], time_el |-> t, content_el |-> c] :
        h \in {<<<<>>, <<>>>>, <<<<"Spacewalk">>, <<"Crew">>>>},
        t \in {"no_time", "no_attr"} \cup TimeAttrs,
        c \in {<<>>} \cup
              {<<n>> : n \in {n \in ContentNodes :
                                Wanted(n.paragraphs) # <<>>
                                   => n.flat = [len |-> 0, words |-> 0]}}}

\* a title that numbers the untitled posts of the run
TitleNumbered(title_el) ==
    IF title_el # <<>> THEN title_el[1] ELSE <<"Untitled", Len(post_results)>>
\* "title_el.get_text(strip=True) if title_el else 'Untitled'"
TitleOf(title_el) == IF title_el # <<>> THEN title_el[1] ELSE "Untitled"

\* "if time_el and time_el.get('datetime')": try fromisoformat; then
\* "if not published_date": try the /yyyy/mm/dd/ of the url
PublishedDate(time_el, url) ==
    LET from_time ==
          IF time_el \in {"no_time", "no_attr", ""} THEN <<>>
          ELSE fromisoformat(ReplaceZ(time_el))
    IN  IF from_time # <<>> THEN from_time
        ELSE IF url.path_date # <<>> THEN datetime(url.path_date[1])
        ELSE <<>>

\* "\n\n".join(p.get_text(strip=True) for p in paragraphs if ...)
RECURSIVE JoinParagraphs(_)
JoinParagraphs(paragraphs) ==
    IF paragraphs = <<>> THEN [len |-> 0, words |-> 0]
    ELSE LET rest == JoinParagraphs(Tail(paragraphs))
             par == Head(paragraphs)
         IN  IF par.len = 0 THEN rest
             ELSE IF rest.len = 0 THEN [len |-> par.len, words |-> par.words]
             ELSE [len |-> par.len + 2 + rest.len,
                   words |-> par.words + rest.words]
\* the unwanted nodes decomposed, then the text of the <p> elements if
\* there is any <p>, else the flat text of the node
TextOf(content) ==
    LET paragraphs == Wanted(content.paragraphs)
    IN  IF paragraphs # <<>> THEN JoinParagraphs(paragraphs)
        ELSE content.flat

\* a test that only skips an empty text
TooShortEmptyOnly(text) == text.len = 0
\* "if not text or len(text) < 50"
TooShort(text) == text.len = 0 \/ text.len < MIN_TEXT_LENGTH

\* BlogPost(...): pydantic rejects a published_date that is no date;
\* scraped_at is datetime.utcnow() by default_factory
BlogPost(fields, clock) ==
    IF fields.published_date = <<>>
    THEN [raised |-> "ValidationError", post |-> <<>>]
    ELSE [raised |-> "none",
          post |-> <<[id |-> 0, url |-> fields.url, title |-> fields.title,
                      author |-> fields.author,
                      published_date |-> fields.published_date[1],
                      text |-> fields.text,
                      word_count |-> fields.word_count,
                      expedition_id |-> fields.expedition_id,
                      scraped_at |-> clock]>>]

NoPost == [raised |-> "none", post |-> <<>>]
\* scrape_full_post on a cached page, from BeautifulSoup(html) on
ExtractPost(page, url, clock) ==
    LET published_date == PublishedDate(page.time_el, url)
    IN  IF published_date = <<>> THEN NoPost
        ELSE IF page.content_el = <<>> THEN NoPost
        ELSE LET text == TextOf(page.content_el[1])
             IN  IF TooShort(text) THEN NoPost
                 ELSE BlogPost(
                        [url |-> url, title |-> TitleOf(page.title_el),
                         author |-> page.author_el,
                         published_date |-> published_date,
                         text |-> text, word_count |-> text.words,
                         expedition_id |->
                            map_date_to_expedition(published_date[1],
                                                   Expeditions)],
                        clock)

\* a call scrape_full_post(url) that finds the page in the cache
ScrapeFullPost ==
    /\ Len(post_results) < MaxInvocations
    /\ post_results' =
          Append(post_results, ExtractPost(page_markup, post_url, now))
    /\ \E t \in {now, now + 1} : now' = t
    /\ UNCHANGED <<page_markup, post_url>>
    /\ UNCHANGED <<tables, storeApiVars, analysisVars, worldVars, blogVars,
                   oralVars, crawlVars, fetchVars, chunkVars, scoreVars,
                   splitVars, mapVars>>

\* run, for a url not in scraped_urls: post = self.scrape_full_post(url);
\* "if post:" insert_blog_post and scraped_urls.add(url); an exception is
\* logged and the loop goes on
RunPost ==
    /\ Len(post_results) < MaxInvocations
    /\ post_url \notin scraped_urls
    /\ LET r == ExtractPost(page_markup, post_url, now)
       IN  /\ post_results' = Append(post_results, r)
           /\ IF r.raised = "none" /\ r.post # <<>>
              THEN /\ blog_posts' = InsertBlogPostStmt(blog_posts, r.post[1]).table
                   /\ scraped_urls' = scraped_urls \cup {post_url}
              ELSE UNCHANGED <<blog_posts, scraped_urls>>
    /\ \E t \in {now, now + 1} : now' = t
    /\ UNCHANGED <<page_markup, post_url>>
    /\ UNCHANGED <<oral_histories, sentiment_results, emotion_results,
                   linguistic_features, storeApiVars, analysisVars, worldVars,
                   checkpoint_file, html_cache, blog_pc, checkpoint, max_pages,
                   page_num, post_metas, meta_index, blog_runs, last_saved,
                   oralVars, crawlVars, fetchVars, chunkVars, scoreVars,
                   splitVars, mapVars>>

\* the tail of the page loop of run after the posts of the page:
\* checkpoint["scraped_post_urls"] = list(scraped_urls); _save_checkpoint
SavePostPage ==
    /\ post_results # <<>>
    /\ ~last_saved.saved
    /\ \E order \in list(scraped_urls) :
          /\ checkpoint' = [last_listing_page |-> page_num,
                            scraped_post_urls |-> order]
          /\ checkpoint_file' = json_dump(checkpoint')
    /\ last_saved' = [saved |-> TRUE, cursor |-> page_num,
                      visited |-> scraped_urls]
    /\ UNCHANGED <<tables, storeApiVars, analysisVars, clockVars, worldVars,
                   html_cache, blog_pc, scraped_urls, max_pages, page_num,
                   post_metas, meta_index, blog_runs, oralVars, crawlVars,
                   callVars>>

InitPost ==
    /\ QuietCalls
    /\ ScoreIdle
    /\ SplitIdle
    /\ page_markup \in Pages
    /\ post_url \in PostUrlArgs
    /\ post_results = <<>>

NextPost ==
    \/ ScrapeFullPost
    \/ RunPost
    \/ SavePostPage

SpecPost == InitPost /\ [][NextPost]_vars

\* <<year, month, day>> is a day of the calendar
IsCalendarDate(d) ==
    /\ Len(d) = 3
    /\ d[1] >= 1 /\ d[2] \in 1..12 /\ d[3] >= 1
    /\ d[3] <= (IF d[2] = 2
                THEN (IF d[1] % 4 = 0 /\ (d[1] % 100 # 0 \/ d[1] % 400 = 0)
                      THEN 29 ELSE 28)
                ELSE IF d[2] \in {4, 6, 9, 11} THEN 30 ELSE 31)
\* the page or the url gives a date
DateResolvable ==
    \/ page_markup.time_el \in {"2024-03-05T10:30:00Z", "2019-01-01"}
    \/ /\ post_url.path_date # <<>>
       /\ IsCalendarDate(post_url.path_date[1])
RECURSIVE SumLens(_)
SumLens(lens) == IF lens = <<>> THEN 0 ELSE Head(lens) + SumLens(Tail(lens))
\* the length of the text of the content node, paragraph by paragraph
BodyLength ==
    LET ps == page_markup.content_el[1].paragraphs
        kept == {i \in DOMAIN ps : ~ps[i].unwanted}
        full == {i \in kept : ps[i].len > 0}
        lens == [i \in DOMAIN ps |-> IF i \in full THEN ps[i].len ELSE 0]
    IN  IF kept = {} THEN page_markup.content_el[1].flat.len
        ELSE IF full = {} THEN 0
        ELSE SumLens(lens) + 2 * (Cardinality(full) - 1)

\* C27: scrape_full_post returns a post only with a resolved date and a
\* text of at least 50 characters; without a resolvable date, without a
\* content node or with a shorter body it returns nothing and raises
\* nothing; every row the run stores has a date of the calendar and a text
\* of at least 50 characters.
C27_OnlyDatedLongPosts ==
    /\ \A i \in DOMAIN post_results :
          LET r == post_results[i]
              hopeless ==
                 \/ ~DateResolvable
                 \/ page_markup.content_el = <<>>
                 \/ BodyLength < MIN_TEXT_LENGTH
          IN  /\ r.raised = "none"
              /\ hopeless <=> r.post = <<>>
              /\ r.post # <<>> =>
                    /\ IsCalendarDate(r.post[1].published_date)
                    /\ r.post[1].text.len >= MIN_TEXT_LENGTH
                    /\ r.post[1].text.len = BodyLength
    /\ \A row \in blog_posts :
          /\ IsCalendarDate(row.published_date)
          /\ row.text.len >= MIN_TEXT_LENGTH
\* a page dated by its <time> element whose two paragraphs make exactly 50
\* characters: extracted, and stored by the run
C27_Witness ==
    /\ page_markup.time_el = "2019-01-01"
    /\ page_markup.content_el # <<>>
    /\ BodyLength = MIN_TEXT_LENGTH
    /\ Len(page_markup.content_el[1].paragraphs) = 2
    /\ Len(post_results) = 1
    /\ post_results[1].post # <<>>
    /\ \E row \in blog_posts :
          /\ row.url = post_url
          /\ row.published_date = <<2019, 1, 1>>
          /\ row.text.len = MIN_TEXT_LENGTH

Extracted(r) ==
    IF r.post = <<>> THEN r
    ELSE [r EXCEPT !.post = <<[r.post[1] EXCEPT !.scraped_at = 0]>>]
MaxExpeditions == 2
\* dates around the turn of a year and of a month
SampleDates ==
    {<<2020, 12, 30>>, <<2020, 12, 31>>, <<2021, 1, 1>>, <<2021, 1, 15>>,
     <<2021, 2, 1>>, <<2021, 2, 2>>}
\* expeditions that overlap for a fortnight, that meet on one day, and one
\* that starts and ends on the same day
SampleExpeditions ==
    {[number |-> 1, start_date |-> <<2020, 12, 31>>, end_date |-> <<2021, 1, 15>>],
     [number |-> 2, start_date |-> <<2021, 1, 1>>, end_date |-> <<2021, 2, 1>>],
     [number |-> 3, start_date |-> <<2021, 1, 15>>, end_date |-> <<2021, 2, 1>>],
     [number |-> 4, start_date |-> <<2021, 2, 2>>, end_date |-> <<2021, 2, 2>>]}
ExpeditionLists ==
    {l \in SUBSET SampleExpeditions : Cardinality(l) <= MaxExpeditions}

notMap == <<tables, storeApiVars, analysisVars, clockVars, worldVars,
            blogVars, oralVars, crawlVars, fetchVars, chunkVars, scoreVars,
            splitVars, postVars>>

\* the call map_date_to_expedition(map_date, expeditions)
MapDateToExpedition ==
    /\ map_pc = "called"
    /\ map_result' = <<map_date_to_expedition(map_date, map_expeditions)>>
    /\ map_pc' = "returned"
    /\ UNCHANGED <<map_date, map_expeditions>>
    /\ UNCHANGED notMap

InitMap ==
    /\ QuietStore
    /\ ScoreIdle
    /\ SplitIdle
    /\ PostIdle
    /\ map_date \in SampleDates
    /\ map_expeditions \in ExpeditionLists
    /\ map_result = <<>>
    /\ map_pc = "called"

NextMap == MapDateToExpedition

SpecMap == InitMap /\ [][NextMap]_vars

\* the number of a day in a calendar of 31-day months: grows with the date
DayNumber(d) == (d[1] * 12 + d[2]) * 31 + d[3]
\* the expeditions of the list whose interval, both ends included, holds
\* the date
Containing ==
    {e \in map_expeditions :
        /\ DayNumber(e.start_date) <= DayNumber(map_date)
        /\ DayNumber(map_date) <= DayNumber(e.end_date)}

\* C31: map_date_to_expedition returns the highest number among the
\* expeditions whose inclusive interval holds the date, and None when no
\* expedition holds it.
C31_HighestContaining ==
    map_pc = "returned" =>
        LET ret == map_result[1]
        IN  /\ Containing = {} <=> ret = <<>>
            /\ ret # <<>> =>
                  /\ \E e \in Containing : e.number = ret[1]
                  /\ \A e \in Containing : e.number <= ret[1]
\* the day two expeditions share, one ending and one starting on it: the
\* later one is returned
C31_Witness ==
    /\ map_pc = "returned"
    /\ map_date = <<2021, 1, 15>>
    /\ Cardinality(map_expeditions) = 2
    /\ \E e \in map_expeditions : e.end_date = map_date /\ e.number = 1
    /\ \E e \in map_expeditions : e.start_date = map_date /\ e.number = 3
    /\ map_result = <<<<3>>>>

(***************************************************************************)
(* The turn machine {idle, accumulating(speaker, buffer)} (SpecSplit).     *)
(***************************************************************************)
\* the words of a string, in order
RECURSIVE WordsFrom(_, _, _)
WordsFrom(str, word, words) ==
    IF str = <<>>
    THEN (IF word = <<>> THEN words ELSE Append(words, word))
    ELSE IF IsSpace(Head(str))
    THEN WordsFrom(Tail(str), <<>>,
                   IF word = <<>> THEN words ELSE Append(words, word))
    ELSE WordsFrom(Tail(str), Append(word, Head(str)), words)
WordsOf(str) == WordsFrom(str, <<>>, <<>>)
\* the words with one space between them
RECURSIVE Spaced(_)
Spaced(words) ==
    IF words = <<>> THEN <<>>
    ELSE IF Len(words) = 1 THEN words[1]
    ELSE words[1] \o <<" ">> \o Spaced(Tail(words))
\* the machine before the first line
TurnIdle == [open |-> FALSE, speaker |-> <<>>, buffer |-> <<>>, emitted |-> <<>>]
\* closing the open turn: a segment if its text is above the threshold
TurnClosed(turn, name) ==
    IF turn.open /\ Len(Spaced(turn.buffer)) > SKIP_LENGTH
    THEN Append(turn.emitted,
           [speaker |-> IF ContainsIgnoringCase(turn.speaker, name)
                        THEN "interviewer" ELSE "astronaut",
            text |-> Spaced(turn.buffer)])
    ELSE turn.emitted
\* one line read by the machine
TurnStep(turn, line, name) ==
    IF Match(line) # <<>>
    THEN [open |-> TRUE, speaker |-> Match(line)[1].group,
          buffer |-> WordsOf(Match(line)[1].remainder),
          emitted |-> TurnClosed(turn, name)]
    ELSE IF WordsOf(line) = <<>> \/ ~turn.open THEN turn
    ELSE [turn EXCEPT !.buffer = turn.buffer \o WordsOf(line)]
\* the segments the machine has emitted at the end of the input
RECURSIVE TurnMachine(_, _, _)
TurnMachine(lines, turn, name) ==
    IF lines = <<>> THEN TurnClosed(turn, name)
    ELSE TurnMachine(Tail(lines), TurnStep(turn, Head(lines), name), name)

\* C32: split_segments returns what the two-state turn machine emits when it
\* reads the text line by line: a marker closes the open turn and opens a
\* new one, of the same speaker too; other non-blank lines extend the open
\* turn; blank lines and lines read while idle change nothing; the end of
\* the input closes the open turn; segments come in the order of their
\* turns.
C32_TurnMachine ==
    split_pc = "returned" =>
        split_result = TurnMachine(text_lines, TurnIdle, interviewer_last_name)
\* a line read while idle, then two turns of the same speaker: two segments,
\* none with the text of the first line
C32_Witness ==
    /\ split_pc = "returned"
    /\ Len(text_lines) = 3
    /\ Markers(text_lines) = {2, 3}
    /\ WordsOf(text_lines[1]) # <<>>
    /\ Match(text_lines[2])[1].group = Match(text_lines[3])[1].group
    /\ Len(split_result) = 2
    /\ split_result[1].text = split_result[2].text
    /\ \A k \in DOMAIN split_result[1].text : split_result[1].text[k] # "c"

(***************************************************************************)
(* insert_expeditions (SpecStore).                                         *)
(***************************************************************************)
\* the step is a call insert_expeditions(conn, expeditions)
IsInsertExpeditions ==
    calls' = calls + 1 /\ call_result'.op = "insert_expeditions"

\* C33: insert_expeditions returns the number of rows the call added to
\* expeditions; an expedition whose number is already stored is not counted,
\* so a call with a list that is already stored returns 0.
C33_CountsInserted ==
    [][IsInsertExpeditions =>
          call_result'.ret = Cardinality(expeditions' \ expeditions)
      ]_vars

(***************************************************************************)
(* The visited set of ISSBlogScraper.run (SpecPost).                       *)
(***************************************************************************)
\* C34: in every checkpoint run saves, every url of scraped_post_urls that
\* the run added has a row in blog_posts.
C34_VisitedHaveRows ==
    last_saved.saved =>
        \A k \in DOMAIN checkpoint.scraped_post_urls :
            \E row \in blog_posts : row.url = checkpoint.scraped_post_urls[k]

(***************************************************************************)
(* A listing page that fails in ISSBlogScraper.run (SpecCrawl).            *)
(***************************************************************************)
\* the step logs "Failed to scrape listing page p"
ListingFails(p) == p \in failed_pages' /\ p \notin failed_pages
\* the step is the end of _save_checkpoint at the tail of a page
PageCompletes == blog_pc = "saving" /\ blog_pc' = "listing"
\* the step is the head of a new run
RunStarts == blog_runs' = blog_runs + 1
\* a run is at listing page p
Scraping(p) == blog_pc \in {"listing", "post", "saving"} /\ page_num = p

\* C35: when listing page p fails the checkpoint is not saved for p and the
\* loop goes on with p + 1; a page q that completes gets the saved cursor q,
\* and once the saved cursor is above p no run is at page p again; while the
\* saved cursor is below p, a run that starts begins at a page up to p.
C35_FailedPageSkipped ==
    /\ [](\A p \in failed_pages : last_saved.cursor > p => ~Scraping(p))
    /\ [][/\ \A p \in 1..MaxPages :
                ListingFails(p) =>
                    /\ checkpoint_file' = checkpoint_file
                    /\ last_saved' = last_saved
                    /\ blog_pc' = "listing"
                    /\ page_num = p /\ page_num' = p + 1
          /\ PageCompletes =>
                /\ last_saved'.cursor = page_num
                /\ Complete(checkpoint_file')
                /\ checkpoint_file'.last_listing_page = page_num
          /\ RunStarts =>
                \A p \in failed_pages :
                    last_saved.cursor < p =>
                        /\ blog_pc' \in {"detect", "listing"}
                        /\ page_num' <= p
         ]_vars

(***************************************************************************)
(* A post whose fetch fails in ISSBlogScraper.run (SpecCrawl).             *)
(***************************************************************************)
\* the step is a live request for the post the run is at
PostRequested ==
    /\ blog_pc = "post"
    /\ net' # net
    /\ net'.event = "fetch"
\* the request of the step brings no response
PostFetchFails == PostRequested /\ io' # "response"
\* the posts of a sequence of links
Listed(metas) == {metas[k] : k \in DOMAIN metas}

\* C36: a post whose fetch fails is not stored and not added to the visited
\* set, and the post loop of its page goes on; the page that completes saves
\* its own number as cursor and a visited set without the failed posts it
\* lists; a live request for a post that failed before is made only from a
\* listing page above the saved cursor that lists it.
C36_FailedPostSkipped ==
    [][/\ PostFetchFails =>
             /\ CurrentPost \in failed_posts'
             /\ blog_posts' = blog_posts
             /\ scraped_urls' = scraped_urls
             /\ blog_pc' = "post" /\ page_num' = page_num
             /\ post_metas' = post_metas /\ meta_index' = meta_index + 1
       /\ PageCompletes =>
             /\ last_saved'.cursor = page_num
             /\ \A url \in failed_posts \cap Listed(post_metas) :
                   /\ url \notin last_saved'.visited
                   /\ url \notin set(checkpoint_file'.scraped_post_urls)
                   /\ ~\E row \in blog_posts' : row.url = url
       /\ (PostRequested /\ CurrentPost \in failed_posts) =>
             /\ page_num > last_saved.cursor
             /\ CurrentPost \in Listed(ListingPosts(page_num))
      ]_vars
\* the second run has returned with both pages saved: the post whose fetch
\* failed has no row and is not in the saved visited set, whereas another
\* post is
C36_Witness ==
    /\ blog_runs = MaxRuns
    /\ blog_pc = "returned"
    /\ last_saved.cursor = MaxPages
    /\ crashes = 0
    /\ PostUrl(1) \in failed_posts
    /\ PostUrl(1) \notin last_saved.visited
    /\ ~\E row \in blog_posts : row.url = PostUrl(1)
    /\ PostUrl(2) \in last_saved.visited
    /\ \E row \in blog_posts : row.url = PostUrl(2)

(***************************************************************************)
(* The cache key of a post (SpecCrawl).                                    *)
(***************************************************************************)
\* the cached post pages, as the number of the post each was fetched for
FetchedPosts ==
    {c.body : c \in {x \in html_cache : x.key[1] = "post"}} \ {Truncated}
\* the step builds the post the run is at from a cached page
ParsedFromCache ==
    /\ CacheHit
    /\ blog_pc = "post"
    /\ meta_index' = meta_index + 1
\* what a page gives when it is parsed for `url`: a post or nothing, and
\* the word count of the post
GivesPost(n, url) ==
    /\ world.post[n] # "no_text"
    /\ world.post[n] = "no_time" => UrlHasDate(url)
WordCountOf(n) ==
    IF world.post[n] = "brief" THEN MIN_WORDS_FOR_ANALYSIS - 1
    ELSE MIN_WORDS_FOR_ANALYSIS

SegmentsOf(name) == {r \in oral_histories : r.astronaut_name = name}
\* the insert loop of process_transcript is at a transcript of `name`
Inserting(name) == oral_pc = "segment" /\ CurrentEntry.name = name
Names == {TranscriptName(n) : n \in 1..MaxTranscripts}

\* C38: process_transcript starts its inserts only for an astronaut without
\* a stored segment and adds the segments one by one, the k-th with index
\* k - 1 and the speaker of the k-th segment of the text; the rows of an
\* astronaut change in no other step, so (astronaut_name, segment_index) is
\* unique at all times and the k segments of an interrupted transcript stay
\* as they are in every later run.
C38_SegmentsKeptAsStored ==
    /\ [](\A x, y \in oral_histories :
            (x # y /\ x.astronaut_name = y.astronaut_name)
                => x.segment_index # y.segment_index)
    /\ [][\A name \in Names :
            LET before == {r.segment_index : r \in SegmentsOf(name)}
                after == {r.segment_index : r \in SegmentsOf(name)'}
            IN  /\ (~Inserting(name) /\ Inserting(name)') => before = {}
                /\ ~Inserting(name) => SegmentsOf(name)' = SegmentsOf(name)
                /\ Inserting(name) =>
                      \/ SegmentsOf(name)' = SegmentsOf(name)
                      \/ /\ before = 0..(seg_index - 1)
                         /\ after = 0..seg_index
                         /\ SegmentsOf(name) \subseteq SegmentsOf(name)'
                         /\ \A r \in SegmentsOf(name)' \ SegmentsOf(name) :
                               /\ r.segment_index = seg_index
                               /\ r.speaker =
                                    Segments(CurrentEntry.pdf_url)[seg_index + 1].speaker
         ]_vars
\* a transcript of two segments was interrupted after the first, and a later
\* run has returned: the astronaut has that one segment
C38_Witness ==
    /\ crashes = 1
    /\ oral_runs = MaxRuns
    /\ oral_pc = "returned"
    /\ \E n \in 1..MaxTranscripts :
          /\ Len(Segments(PdfUrl(n))) = 2
          /\ {r.segment_index : r \in SegmentsOf(TranscriptName(n))} = {0}
          /\ Cardinality(SegmentsOf(TranscriptName(n))) = 1

(***************************************************************************)
(* The rows run_analysis leaves out (SpecAnalysis).                        *)
(***************************************************************************)
SourceRows(source_type) ==
    IF source_type = "blog" THEN blog_posts ELSE oral_histories
\* a row of fewer than 10 words, or an interviewer turn
LeftOut(source_type, row) ==
    \/ row.word_count < 10
    \/ source_type = "oral_history" /\ row.speaker = "interviewer"
\* the row is in what get_unanalyzed returns for the table of `analyzer`
StillUnanalyzed(analyzer, source_type, row) ==
    row \in (CASE analyzer = "sentiment" ->
                    get_unanalyzed(SourceRows(source_type), sentiment_results,
                                   source_type, SENTIMENT_MODEL)
               [] analyzer = "emotion" ->
                    get_unanalyzed(SourceRows(source_type), emotion_results,
                                   source_type, EMOTION_MODEL)
               [] OTHER ->
                    get_unanalyzed(SourceRows(source_type),
                                   linguistic_features, source_type, None))

\* C39: a source row of fewer than 10 words or of an interviewer never has a
\* stored result and is always in what get_unanalyzed returns; when the loop
\* of a run in which nothing failed is past its batch, every other row of
\* the batch has a stored result of each enabled analyzer.
C39_LeftOutRowsStayUnanalyzed ==
    /\ \A st \in SourceTypes : \A row \in SourceRows(st) :
          LeftOut(st, row) =>
              \A X \in Analyzers :
                  /\ ~HasResult(X, st, row.id)
                  /\ StillUnanalyzed(X, st, row)
    /\ (ar_pc = "row" /\ row_index > Len(rows) /\ failed = {}) =>
          \A j \in 1..Len(rows) :
              ~LeftOut(ar_source_type, rows[j]) =>
                  \A X \in Analyzers :
                      analyzers[X] => HasResult(X, ar_source_type, rows[j].id)
\* the second run with every analyzer is past its blog batch of two posts
\* and nothing failed: the short post and the interviewer turn have no
\* result, the other post has all three
C39_Witness ==
    /\ invocation = MaxRuns
    /\ ar_pc = "row"
    /\ ar_source_type = "blog"
    /\ Len(rows) = 2
    /\ row_index = 3
    /\ failed = {}
    /\ analyzers = [sentiment |-> TRUE, emotion |-> TRUE, linguistic |-> TRUE]
    /\ rows[1].word_count = MIN_WORDS_FOR_ANALYSIS - 1
    /\ rows[2].word_count = MIN_WORDS_FOR_ANALYSIS
    /\ \A X \in Analyzers :
          /\ ~HasResult(X, "blog", rows[1].id)
          /\ HasResult(X, "blog", rows[2].id)
          /\ ~HasResult(X, "oral_history", InterviewerTurn.id)
    /\ InterviewerTurn \in oral_histories

====
